---- MODULE Spec2Model ----
(***************************************************************************)
(* The DWARF loader of dwarves (dwarf_loader.c): the CU builder, the       *)
(* reference resolver with its bitfield recoder, the post-load size cache  *)
(* and the per-file driver loop, as one state machine.                     *)
(***************************************************************************)
EXTENDS Integers, Sequences, FiniteSets, TLC

VARIABLES
    limits,     \* what the DWARF cursor of this run may yield (fixed by Init)
    conf,       \* struct conf_load handed to dwarf__load_file
    pc,         \* position of the driver
    mod,        \* number of modules dwfl_getmodules has handed to the callback
    cb,         \* value the callback returned for the last module
    found,      \* parms.nr_dwarf_sections_found
    off,        \* cursor offset of the current CU in the current module
    ncu,        \* number of CUs the cursor has yielded for this file
    cu,         \* the CU under construction (struct cu and its struct dwarf_cu)
    lastdie,    \* offset of the last top-level DIE die__process_unit has read
    ndies,      \* number of top-level DIEs read for the current CU
    rt,         \* position of cu__recode_dwarf_types: table and index
    cus,        \* the file's list of CUs (struct cus)
    ret,        \* value returned by dwarf__load_file
    log,        \* history of what the driver did, per CU
    dx          \* the activation of dwarf_expr: position, bytes read, accumulator

vars == <<limits, conf, pc, mod, cb, found, off, ncu, cu, lastdie, ndies, rt, cus, ret,
          log, dx>>

(***************************************************************************)
(* Bounds of the model.                                                    *)
(***************************************************************************)
MaxModules == 2
MaxCUs == 3
MaxDies == 3
DriverDies == 2
MaxFuel == 2
AddrDies == 2
MaxJunk == 1

(***************************************************************************)
(* Program constants.                                                      *)
(***************************************************************************)
ENOMEM == 12
EINVAL == 22
U16 == 65536
SEGV == 999
\* max_dimensions of die__create_new_array
MaxDimensions == 64
\* the location opcodes of dwarf.h that dwarf__location tells apart
DW_OP_addr == 3
DW_OP_reg0 == 80
DW_OP_reg1 == 81
DW_OP_reg31 == 111
DW_OP_breg0 == 112
DW_OP_breg31 == 143
DW_OP_fbreg == 145
\* another opcode, which dwarf__location does not list
DW_OP_deref == 6
\* the opcodes whose operand dwarf_expr decodes
DW_OP_constu == 16
DW_OP_plus_uconst == 35
\* the continuation bit of a ULEB128 byte and the width of uint64_t
Continuation == 128
Width == 64
\* the bytes __libdw_get_uleb128 reads at most, the first one included
MaxBytes == 10

Min(S) == CHOOSE x \in S : \A y \in S : x <= y

(***************************************************************************)
(* DIEs as the DWARF cursor presents them.                                 *)
(***************************************************************************)
Die(tag, offset) ==
    [tag |-> tag, off |-> offset, type |-> 0, import |-> 0, ao |-> 0, spec |-> 0,
     name |-> "", byte_size |-> 0, bit_size |-> 0, bit_offset |-> 0,
     data_member_location |-> 0, containing_type |-> 0, upper_bound |-> -1,
     const_value |-> 0, children |-> <<>>,
     declaration |-> FALSE, has_location |-> FALSE, location |-> <<>>,
     low_pc |-> -1, high_pc |-> -1, ranges |-> <<>>]

DieInt == [Die("base_type", 10) EXCEPT !.name = "int", !.byte_size = 4]

DieTypedef == [Die("typedef", 20) EXCEPT !.name = "T", !.type = 10]

DiePointer == [Die("pointer_type", 30) EXCEPT !.type = 10]

\* struct S { int a:3; int b:3; int c; };
DieStruct ==
    [Die("structure_type", 40) EXCEPT !.name = "S", !.byte_size = 8, !.children = <<
        [Die("member", 41) EXCEPT !.name = "a", !.type = 10, !.bit_size = 3],
        [Die("member", 42) EXCEPT !.name = "b", !.type = 10, !.bit_size = 3],
        [Die("member", 43) EXCEPT !.name = "c", !.type = 10,
                                  !.data_member_location = 4] >>]

\* struct W { T a:3; T b:3; };
DieStructTypedef ==
    [Die("structure_type", 45) EXCEPT !.name = "W", !.byte_size = 4, !.children = <<
        [Die("member", 46) EXCEPT !.name = "a", !.type = 20, !.bit_size = 3],
        [Die("member", 47) EXCEPT !.name = "b", !.type = 20, !.bit_size = 3] >>]

\* struct P { int *p:2; int d; };
DieStructPointer ==
    [Die("structure_type", 50) EXCEPT !.name = "P", !.byte_size = 8, !.children = <<
        [Die("member", 51) EXCEPT !.name = "p", !.type = 30, !.bit_size = 2],
        [Die("member", 52) EXCEPT !.name = "d", !.type = 10,
                                  !.data_member_location = 4] >>]

DieBar == [Die("subprogram", 55) EXCEPT !.name = "bar"]

\* the abstract instance of foo(int x)
DieFoo ==
    [Die("subprogram", 60) EXCEPT !.name = "foo", !.children = <<
        [Die("formal_parameter", 61) EXCEPT !.name = "x", !.type = 10] >>]

\* an out-of-line instance of foo, with foo inlined into a block of it
DieInstance ==
    [Die("subprogram", 70) EXCEPT !.ao = 60, !.children = <<
        [Die("formal_parameter", 71) EXCEPT !.ao = 61],
        [Die("inlined_subroutine", 72) EXCEPT !.ao = 60, !.children = <<
            [Die("formal_parameter", 73) EXCEPT !.ao = 61] >>],
        [Die("lexical_block", 74) EXCEPT !.children = <<
            [Die("variable", 75) EXCEPT !.name = "v", !.type = 10] >>] >>]

\* struct V { const int a:3; }; the const_type DIE follows the structure
DieStructConst ==
    [Die("structure_type", 78) EXCEPT !.name = "V", !.byte_size = 4, !.children = <<
        [Die("member", 79) EXCEPT !.name = "a", !.type = 80, !.bit_size = 3] >>]

DieConst == [Die("const_type", 80) EXCEPT !.type = 10]

\* a DIE of a kind __die__process_tag has no case for
DieUnsupported == Die("unspecified_type", 90)

\* union U { int m; <unsupported>; };
DieUnion ==
    [Die("union_type", 92) EXCEPT !.name = "U", !.byte_size = 4, !.children = <<
        [Die("member", 93) EXCEPT !.name = "m", !.type = 10],
        Die("unspecified_type", 94) >>]

DieImport == [Die("imported_declaration", 98) EXCEPT !.import = 60]

\* a base type whose name the name-to-size table does not know
DieOdd == [Die("base_type", 12) EXCEPT !.name = "__int128", !.byte_size = 16]

\* enum E { A = 1, B = 5 };
DieEnum ==
    [Die("enumeration_type", 14) EXCEPT !.name = "E", !.byte_size = 4, !.children = <<
        [Die("enumerator", 15) EXCEPT !.name = "A", !.const_value = 1],
        [Die("enumerator", 16) EXCEPT !.name = "B", !.const_value = 5] >>]

\* struct Q { enum E e:2; enum E f:2; __int128 o:5; };
DieStructEnum ==
    [Die("structure_type", 100) EXCEPT !.name = "Q", !.byte_size = 16, !.children = <<
        [Die("member", 101) EXCEPT !.name = "e", !.type = 14, !.bit_size = 2],
        [Die("member", 102) EXCEPT !.name = "f", !.type = 14, !.bit_size = 2],
        [Die("member", 103) EXCEPT !.name = "o", !.type = 12, !.bit_size = 5,
                                   !.data_member_location = 8] >>]

\* int m[3][5], with a child that is no subrange between the two subranges
DieArray ==
    [Die("array_type", 110) EXCEPT !.type = 10, !.children = <<
        [Die("subrange_type", 111) EXCEPT !.upper_bound = 2],
        Die("unspecified_type", 112),
        [Die("subrange_type", 113) EXCEPT !.upper_bound = 4] >>]

\* an array of one dimension more than max_dimensions; dimension i has i + 1 entries
DieArrayDeep ==
    [Die("array_type", 120) EXCEPT !.type = 10, !.children =
        [i \in 1..(MaxDimensions + 1) |->
            [Die("subrange_type", 120 + i) EXCEPT !.upper_bound = i]]]

\* int (*)(int): the parameter of a function type has no name
DieFnType ==
    [Die("subroutine_type", 190) EXCEPT !.type = 10, !.children = <<
        [Die("formal_parameter", 191) EXCEPT !.type = 10] >>]

\* a subprogram with no name, an abstract origin (foo) and a specification (bar)
DieDefinition == [Die("subprogram", 195) EXCEPT !.ao = 60, !.spec = 55]

RichMenu ==
    {DieInt, DieTypedef, DiePointer, DieStruct, DieStructTypedef, DieStructPointer,
     DieBar, DieFoo, DieInstance, DieStructConst, DieConst, DieUnsupported, DieUnion,
     DieImport, DieOdd, DieEnum, DieStructEnum, DieArray, DieArrayDeep, DieFnType,
     DieDefinition}

SmallMenu == {DiePointer, DieStructPointer, DieUnsupported}

\* struct F { int w:32; int n:3; enum E k:32; int z; };
DieStructSilly ==
    [Die("structure_type", 130) EXCEPT !.name = "F", !.byte_size = 16, !.children = <<
        [Die("member", 131) EXCEPT !.name = "w", !.type = 10, !.bit_size = 32],
        [Die("member", 132) EXCEPT !.name = "n", !.type = 10, !.bit_size = 3,
                                   !.bit_offset = 29, !.data_member_location = 4],
        [Die("member", 133) EXCEPT !.name = "k", !.type = 14, !.bit_size = 32,
                                   !.data_member_location = 8],
        [Die("member", 134) EXCEPT !.name = "z", !.type = 10,
                                   !.data_member_location = 12] >>]

\* a clone of the out-of-line instance of foo: its parameter names the
\* parameter of the instance, which names the parameter of foo
DieClone ==
    [Die("subprogram", 66) EXCEPT !.ao = 70, !.children = <<
        [Die("formal_parameter", 67) EXCEPT !.ao = 71] >>]

\* a function type whose parameter names the parameter of foo
DieFnTypeOrigin ==
    [Die("subroutine_type", 160) EXCEPT !.children = <<
        [Die("formal_parameter", 161) EXCEPT !.ao = 61] >>]

\* an out-of-line instance that comes before its abstract instance
DieEarly ==
    [Die("subprogram", 165) EXCEPT !.ao = 170, !.children = <<
        [Die("formal_parameter", 166) EXCEPT !.ao = 171] >>]

DieLate ==
    [Die("subprogram", 170) EXCEPT !.name = "late", !.children = <<
        [Die("formal_parameter", 171) EXCEPT !.name = "y", !.type = 10] >>]

OriginMenu == {DieInt, DieFoo, DieClone, DieInstance, DieFnTypeOrigin, DieEarly, DieLate}

\* typedef int *Q;
DieTypedefPointer == [Die("typedef", 35) EXCEPT !.name = "Q", !.type = 30]

\* struct X { Q q:3; }: a bitfield whose type cannot be recoded
DieStructWrapped ==
    [Die("structure_type", 140) EXCEPT !.name = "X", !.byte_size = 8, !.children = <<
        [Die("member", 141) EXCEPT !.name = "q", !.type = 35, !.bit_size = 3] >>]

FixupMenu ==
    {DieInt, DieOdd, DieEnum, DieTypedef, DieStruct, DieStructSilly, DieStructEnum,
     DieStructTypedef, DiePointer, DieTypedefPointer, DieStructWrapped}

\* variables by the shape of their DW_AT_location
DieVar(offset, name, location) ==
    [Die("variable", offset) EXCEPT !.name = name, !.has_location = TRUE,
                                    !.location = location]

Op(atom, number) == [atom |-> atom, number |-> number]

DieVarAddr == DieVar(200, "g", << Op(DW_OP_addr, 4096) >>)

DieVarReg0 == DieVar(202, "r0", << Op(DW_OP_reg0, 0) >>)

DieVarReg1 == DieVar(204, "r1", << Op(DW_OP_reg1, 0) >>)

DieVarReg31 == DieVar(206, "r31", << Op(DW_OP_reg31, 0) >>)

DieVarBreg0 == DieVar(208, "b0", << Op(DW_OP_breg0, 8) >>)

DieVarBreg31 == DieVar(210, "b31", << Op(DW_OP_breg31, 8) >>)

DieVarFbreg == DieVar(212, "l", << Op(DW_OP_fbreg, 16), Op(DW_OP_deref, 0) >>)

DieVarOptimized == [Die("variable", 214) EXCEPT !.name = "o"]

DieVarEmpty == DieVar(216, "e", << >>)

DieVarDeref == DieVar(218, "d", << Op(DW_OP_deref, 0), Op(DW_OP_addr, 4096) >>)

DieVarDeclaration ==
    [DieVar(220, "x", << Op(DW_OP_addr, 8192) >>) EXCEPT !.declaration = TRUE]

\* a function with code: a label, a block with a local, and two inline
\* expansions, one in two ranges and one without any address
DieCode ==
    [Die("subprogram", 230) EXCEPT !.name = "run", !.low_pc = 16, !.high_pc = 48,
     !.children = <<
        [Die("label", 231) EXCEPT !.name = "out", !.low_pc = 20],
        [Die("lexical_block", 232) EXCEPT !.low_pc = 24, !.high_pc = 32, !.children = <<
            DieVar(233, "i", << Op(DW_OP_fbreg, 8) >>) >>],
        [Die("inlined_subroutine", 234) EXCEPT
            !.ranges = << [start |-> 24, end |-> 28], [start |-> 36, end |-> 40] >>],
        [Die("inlined_subroutine", 236) EXCEPT !.low_pc = 40, !.high_pc = 44],
        [Die("inlined_subroutine", 238) EXCEPT !.ao = 0] >>]

AddrMenu ==
    {DieVarAddr, DieVarReg0, DieVarReg1, DieVarReg31, DieVarBreg0, DieVarBreg31,
     DieVarFbreg, DieVarOptimized, DieVarEmpty, DieVarDeref, DieVarDeclaration, DieCode}

(***************************************************************************)
(* Tag kinds (dwarves.h predicates).                                       *)
(***************************************************************************)
tag__is_struct(k) == k \in {"structure_type", "class_type", "interface_type"}

tag__is_type(k) ==
    tag__is_struct(k) \/ k \in {"union_type", "typedef", "enumeration_type"}

tag__has_namespace(k) ==
    tag__is_struct(k) \/ k \in {"union_type", "namespace", "enumeration_type"}

tag__is_tag_type(k) ==
    tag__is_type(k) \/
    k \in {"base_type", "const_type", "volatile_type", "pointer_type", "reference_type",
           "array_type", "namespace", "ptr_to_member_type", "subroutine_type"}

cu__is_c_plus_plus(c) == c.language = "C_plus_plus"

(***************************************************************************)
(* struct tag with its struct dwarf_tag (priv), and struct cu with its     *)
(* struct dwarf_cu.  Tags live in c.heap; a tag pointer is an index into   *)
(* it and 0 is NULL.  Names are strings, "" being strings_t 0.             *)
(***************************************************************************)
ZeroTag ==
    [tag |-> "", type |-> 0, top_level |-> FALSE, priv |-> TRUE,
     id |-> 0, dtype |-> 0, abstract_origin |-> 0, spec |-> 0, small_id |-> -1,
     name |-> "", bit_size |-> 0, size |-> 0, nr_members |-> 0,
     shared_tags |-> FALSE, alias |-> 0, tags |-> <<>>,
     parms |-> <<>>, unspec_parms |-> FALSE, ltags |-> <<>>,
     byte_offset |-> 0, bitfield_offset |-> 0, bitfield_size |-> 0,
     byte_size |-> 0, mbit_size |-> 0, containing_type |-> 0,
     nr_entries |-> <<>>, value |-> 0,
     declaration |-> FALSE, location |-> "LOCATION_UNKNOWN", addr |-> 0, high_pc |-> 0]

cu__new(language, cnf, fuel) ==
    [language |-> language,
     extra_dbg_info |-> cnf.present /\ cnf.extra_dbg_info,
     has_addr_info |-> cnf.present /\ cnf.get_addr_info,
     fuel |-> fuel,
     types_table |-> <<0>>, tags_table |-> <<>>, functions_table |-> <<>>,
     tags |-> <<>>, heap |-> <<>>,
     hash_tags |-> <<>>, hash_types |-> <<>>, obstack |-> "live",
     oom |-> FALSE, junk |-> 0]

NoCU == cu__new("none", [present |-> FALSE], 0)

\* obstack allocation: c.fuel allocations succeed (-1: all of them); c.oom
\* records that one has failed.  The memory is not cleared: c.junk is what a
\* field that the constructor never writes holds
__tag__alloc(c, rec) ==
    IF c.fuel = 0
    THEN [c |-> [c EXCEPT !.oom = TRUE], tag |-> 0, err |-> 0]
    ELSE [c |-> [c EXCEPT !.heap = Append(@, rec),
                          !.fuel = IF @ > 0 THEN @ - 1 ELSE @],
          tag |-> Len(c.heap) + 1, err |-> 0]

tag__init(rec, die) ==
    [rec EXCEPT !.tag = die.tag,
                !.id = die.off,
                !.dtype = IF die.tag \in {"imported_module", "imported_declaration"}
                          THEN die.import ELSE die.type,
                !.abstract_origin = die.ao]

tag__new(die, c) == __tag__alloc(c, tag__init(ZeroTag, die))

ptr_to_member_type__new(die, c) ==
    __tag__alloc(c, [tag__init(ZeroTag, die) EXCEPT !.abstract_origin = die.containing_type])

base_type__new(die, c) ==
    __tag__alloc(c, [tag__init(ZeroTag, die) EXCEPT !.name = die.name,
                                                    !.bit_size = die.byte_size * 8])

namespace__init(rec, die) == [tag__init(rec, die) EXCEPT !.name = die.name]

type__init(rec, die) ==
    [namespace__init(rec, die) EXCEPT !.size = die.byte_size, !.spec = die.spec]

type__new(die, c) == __tag__alloc(c, type__init(ZeroTag, die))

class__new(die, c) == __tag__alloc(c, type__init(ZeroTag, die))

namespace__new(die, c) == __tag__alloc(c, namespace__init(ZeroTag, die))

enumerator__new(die, c) ==
    __tag__alloc(c, [tag__init(ZeroTag, die) EXCEPT !.name = die.name,
                                                    !.value = die.const_value])

\* DW_AT_location as attr_location reads it: die.has_location tells whether
\* the attribute is there, die.location is its expression
dwarf__location(die) ==
    IF ~die.has_location
    THEN [location |-> "LOCATION_OPTIMIZED", addr |-> 0]
    ELSE IF Len(die.location) = 0
    THEN [location |-> "LOCATION_UNKNOWN", addr |-> 0]
    ELSE LET expr == die.location[1]
         IN  CASE expr.atom = DW_OP_addr ->
                      [location |-> "LOCATION_GLOBAL", addr |-> expr.number]
               [] expr.atom \in DW_OP_reg1..DW_OP_reg31 ->
                      [location |-> "LOCATION_REGISTER", addr |-> 0]
               [] expr.atom \in DW_OP_breg0..DW_OP_breg31 ->
                      [location |-> "LOCATION_REGISTER", addr |-> 0]
               [] expr.atom = DW_OP_fbreg ->
                      [location |-> "LOCATION_LOCAL", addr |-> 0]
               [] OTHER -> [location |-> "LOCATION_UNKNOWN", addr |-> 0]

variable__new(die, c) ==
    LET self == [tag__init(ZeroTag, die) EXCEPT !.name = die.name,
                                                !.declaration = die.declaration,
                                                !.location = "LOCATION_UNKNOWN",
                                                !.addr = 0]
        l    == dwarf__location(die)
    IN  __tag__alloc(c, IF ~self.declaration /\ c.has_addr_info
                        THEN [self EXCEPT !.location = l.location, !.addr = l.addr]
                        ELSE self)

\* dwarf_lowpc and dwarf_highpc fail on a DIE without the attribute, which the
\* DIE records as -1
label__new(die, c) ==
    __tag__alloc(c, [tag__init(ZeroTag, die) EXCEPT
                        !.name = die.name,
                        !.addr = IF ~c.has_addr_info \/ die.low_pc < 0
                                 THEN 0 ELSE die.low_pc])

parameter__new(die, c) ==
    __tag__alloc(c, [tag__init(ZeroTag, die) EXCEPT !.name = die.name])

class_member__new(die, c) ==
    __tag__alloc(c, [tag__init(ZeroTag, die) EXCEPT !.name = die.name,
                                                    !.byte_offset = die.data_member_location,
                                                    !.bitfield_offset = die.bit_offset,
                                                    !.bitfield_size = die.bit_size])

\* what dwarf_ranges enumerates: the DW_AT_ranges list or, without one, the
\* single range of low_pc and high_pc
dwarf_ranges(die) ==
    IF die.ranges # <<>> THEN die.ranges
    ELSE IF die.low_pc >= 0 /\ die.high_pc >= 0
    THEN << [start |-> die.low_pc, end |-> die.high_pc] >>
    ELSE <<>>

\* the while (1) loop of inline_expansion__new
RECURSIVE RangesLoop(_, _, _)
RangesLoop(self, ranges, i) ==
    IF i > Len(ranges) THEN self
    ELSE RangesLoop([self EXCEPT !.high_pc = ranges[i].end,
                                 !.size = @ + (ranges[i].end - ranges[i].start),
                                 !.addr = IF @ = 0 THEN ranges[i].start ELSE @],
                    ranges, i + 1)

\* both the address and high_pc are read with dwarf_lowpc; without address
\* information the function leaves before size is written
inline_expansion__new(die, c) ==
    LET self == [tag__init(ZeroTag, die) EXCEPT !.dtype = die.ao, !.addr = 0,
                                                !.high_pc = 0, !.size = c.junk]
        lowpc == IF die.low_pc < 0 THEN 0 ELSE die.low_pc
        read  == [self EXCEPT !.addr = lowpc, !.high_pc = lowpc, !.size = lowpc - lowpc]
    IN  __tag__alloc(c, IF ~c.has_addr_info THEN self
                        ELSE IF read.size = 0 THEN RangesLoop(read, dwarf_ranges(die), 1)
                        ELSE read)

lexblock__init(rec, die, c) ==
    IF ~c.has_addr_info \/ die.low_pc < 0
    THEN [rec EXCEPT !.addr = 0, !.size = 0]
    ELSE IF die.high_pc < 0
    THEN [rec EXCEPT !.addr = die.low_pc, !.size = 0]
    ELSE [rec EXCEPT !.addr = die.low_pc, !.size = die.high_pc - die.low_pc]

lexblock__new(die, c) == __tag__alloc(c, lexblock__init(tag__init(ZeroTag, die), die, c))

ftype__new(die, c) == tag__new(die, c)

function__new(die, c) ==
    __tag__alloc(c, [lexblock__init(tag__init(ZeroTag, die), die, c) EXCEPT
                        !.name = die.name, !.spec = die.spec])

array_type__new(die, c) == tag__new(die, c)

(***************************************************************************)
(* The dense tables and the by-id hashes.                                  *)
(***************************************************************************)
\* a hash table is the list of its tags, the most recently hashed first
hashtags__find(c, hashtable, id) ==
    IF id = 0 THEN 0
    ELSE LET m == {j \in 1..Len(hashtable) : c.heap[hashtable[j]].id = id}
         IN IF m = {} THEN 0 ELSE hashtable[Min(m)]

dwarf_cu__find_tag_by_id(c, id) == hashtags__find(c, c.hash_tags, id)

dwarf_cu__find_type_by_id(c, id) == hashtags__find(c, c.hash_types, id)

cu__hash(c, t) ==
    IF tag__is_tag_type(c.heap[t].tag)
    THEN [c EXCEPT !.hash_types = <<t>> \o @]
    ELSE [c EXCEPT !.hash_tags = <<t>> \o @]

\* the index a table hands out is its number of entries before the insertion
cu__table_add_tag(c, t) ==
    IF tag__is_tag_type(c.heap[t].tag)
    THEN [c |-> [c EXCEPT !.types_table = Append(@, t)], id |-> Len(c.types_table)]
    ELSE IF c.heap[t].tag = "subprogram"
    THEN [c |-> [c EXCEPT !.functions_table = Append(@, t)], id |-> Len(c.functions_table)]
    ELSE [c |-> [c EXCEPT !.tags_table = Append(@, t)], id |-> Len(c.tags_table)]

cu__add_tag(c, t) ==
    LET a == cu__table_add_tag(c, t)
    IN  [c |-> [a.c EXCEPT !.tags = Append(@, t)], id |-> a.id]

\* a builder that records the index after the one the table handed out
SetSmallIdOffByOne(c, t, id) == cu__hash([c EXCEPT !.heap[t].small_id = (id + 1) % U16], t)

\* cu__hash(cu, tag); dtag->small_id = id;
SetSmallId(c, t, id) == cu__hash([c EXCEPT !.heap[t].small_id = id % U16], t)

\* what a loop of the builder returns for a failed child
Failed(c, r) == [c |-> c, tag |-> 0, err |-> IF r.err = -SEGV THEN -SEGV ELSE -ENOMEM]

(***************************************************************************)
(* The CU builder: one operator per die__ function.  Each returns the CU,  *)
(* the tag it made (0 for NULL) and an error code.                         *)
(***************************************************************************)
RECURSIVE die__process_tag(_, _, _)
RECURSIVE die__process_class(_, _, _, _)
RECURSIVE die__process_namespace(_, _, _, _)
RECURSIVE FunctionLoop(_, _, _, _, _)
RECURSIVE InlineExpansionLoop(_, _, _)
RECURSIVE SubroutineTypeLoop(_, _, _, _)

Result(c, tag, err) == [c |-> c, tag |-> tag, err |-> err]

\* a is what cu__table_add_tag or cu__add_tag returned for tag t
Inserted(a, t) == SetSmallId(a.c, t, a.id)

\* what a creator returns when the loop over the children returned p
Created(p, t) == IF p.err # 0 THEN Result(p.c, 0, p.err) ELSE Result(p.c, t, 0)

attr_upper_bound(die) == IF die.upper_bound >= 0 THEN die.upper_bound + 1 ELSE 0

\* the do-while loop of die__create_new_array
RECURSIVE ArrayLoop(_, _, _)
ArrayLoop(dies, i, dims) ==
    IF i > Len(dies) THEN dims
    ELSE IF dies[i].tag # "subrange_type" THEN ArrayLoop(dies, i + 1, dims)
    ELSE IF Len(dims) + 1 = MaxDimensions THEN Append(dims, attr_upper_bound(dies[i]))
    ELSE ArrayLoop(dies, i + 1, Append(dims, attr_upper_bound(dies[i])))

\* a builder that records every subrange child, however many there are
die__create_new_arrayUncapped(die, c) ==
    LET IsSub(d) == d.tag = "subrange_type"
        subs == SelectSeq(die.children, IsSub)
        Fill(r) ==
            IF r.tag = 0 \/ die.children = <<>> THEN r
            ELSE [r EXCEPT !.c.heap[r.tag].nr_entries =
                               [i \in 1..Len(subs) |-> attr_upper_bound(subs[i])]]
    IN  Fill(array_type__new(die, c))

die__create_new_array(die, c) ==
    LET Fill(r) ==
            IF r.tag = 0 \/ die.children = <<>> THEN r
            ELSE IF r.c.fuel = 0 THEN Result([r.c EXCEPT !.oom = TRUE], 0, 0)
            ELSE [r EXCEPT !.c.heap[r.tag].nr_entries = ArrayLoop(die.children, 1, <<>>),
                           !.c.fuel = IF @ > 0 THEN @ - 1 ELSE @]
    IN  Fill(array_type__new(die, c))

\* the do-while loop of die__create_new_enumeration
RECURSIVE EnumerationLoop(_, _, _, _)
EnumerationLoop(dies, i, e, c) ==
    LET Add(r) ==
            IF r.tag = 0 THEN Result(r.c, 0, 0)
            ELSE EnumerationLoop(dies, i + 1, e,
                     [r.c EXCEPT !.heap[e].tags = Append(@, r.tag),
                                 !.heap[e].nr_members = @ + 1])
    IN  IF i > Len(dies) THEN Result(c, e, 0)
        ELSE IF dies[i].tag # "enumerator" THEN EnumerationLoop(dies, i + 1, e, c)
        ELSE Add(enumerator__new(dies[i], c))

die__create_new_enumeration(die, c) ==
    LET Fill(r) ==
            IF r.tag = 0 THEN r
            ELSE EnumerationLoop(die.children, 1, r.tag,
                     [r.c EXCEPT !.heap[r.tag].size = IF @ = 0 THEN 32 ELSE @ * 8])
    IN  Fill(type__new(die, c))

die__create_new_class(die, c) ==
    LET Fill(r) ==
            IF r.tag = 0 \/ die.children = <<>> THEN r
            ELSE Created(die__process_class(die.children, 1, r.tag, r.c), r.tag)
    IN  Fill(class__new(die, c))

die__create_new_union(die, c) ==
    LET Fill(r) ==
            IF r.tag = 0 \/ die.children = <<>> THEN r
            ELSE Created(die__process_class(die.children, 1, r.tag, r.c), r.tag)
    IN  Fill(type__new(die, c))

die__create_new_namespace(die, c) ==
    LET Fill(r) ==
            IF r.tag = 0 \/ die.children = <<>> THEN r
            ELSE Created(die__process_namespace(die.children, 1, r.tag, r.c), r.tag)
    IN  Fill(namespace__new(die, c))

\* the member is entered into a table only in a C++ CU
AddMember(c, m) ==
    LET Id(a) == [a.c EXCEPT !.heap[m].small_id = a.id % U16]
    IN  IF cu__is_c_plus_plus(c) THEN Id(cu__table_add_tag(c, m)) ELSE c

die__process_class(dies, i, class, c) ==
    LET \* type__add_member(class, member); cu__hash(cu, &member->tag);
        Member(r) ==
            IF r.tag = 0 THEN Failed(r.c, r)
            ELSE die__process_class(dies, i + 1, class,
                     cu__hash([AddMember(r.c, r.tag) EXCEPT
                                   !.heap[class].tags = Append(@, r.tag),
                                   !.heap[class].nr_members = @ + 1], r.tag))
        \* namespace__add_tag(&class->namespace, tag); cu__hash(cu, tag);
        Tag(r) ==
            IF r.tag = 0 THEN Failed(r.c, r)
            ELSE die__process_class(dies, i + 1, class,
                     [Inserted(cu__table_add_tag(r.c, r.tag), r.tag) EXCEPT
                          !.heap[class].tags = Append(@, r.tag)])
    IN
    IF i > Len(dies) THEN Result(c, class, 0)
    ELSE IF dies[i].tag \in {"template_type_parameter", "template_value_parameter"}
    THEN die__process_class(dies, i + 1, class, c)
    ELSE IF dies[i].tag \in {"inheritance", "member"}
    THEN Member(class_member__new(dies[i], c))
    ELSE Tag(die__process_tag(dies[i], c, FALSE))

die__process_namespace(dies, i, ns, c) ==
    LET Tag(r) ==
            IF r.tag = 0 THEN Failed(r.c, r)
            ELSE die__process_namespace(dies, i + 1, ns,
                     [Inserted(cu__table_add_tag(r.c, r.tag), r.tag) EXCEPT
                          !.heap[ns].tags = Append(@, r.tag)])
    IN  IF i > Len(dies) THEN Result(c, ns, 0)
        ELSE Tag(die__process_tag(dies[i], c, FALSE))

\* ftype and lexblock are tags or 0 (NULL); a function is both
die__process_function(die, ftype, lexblock, c) ==
    IF die.children = <<>> THEN Result(c, 0, 0)
    ELSE FunctionLoop(die.children, 1, ftype, lexblock, c)

die__create_new_lexblock(die, c, father) ==
    LET \* p is what die__process_function returned for the block t
        Attach(p, t) ==
            IF p.err # 0 THEN Failed(p.c, p)
            ELSE IF father = 0 THEN Result(p.c, t, 0)
            \* lexblock__add_lexblock(father, lexblock) of a NULL lexblock
            ELSE IF t = 0 THEN Result(p.c, 0, -SEGV)
            ELSE Result([p.c EXCEPT !.heap[father].ltags = Append(@, t)], t, 0)
        Fill(r) ==
            IF r.tag = 0 THEN Attach(r, 0)
            ELSE Attach(die__process_function(die, 0, r.tag, r.c), r.tag)
    IN  Fill(lexblock__new(die, c))

die__process_inline_expansion(die, c) ==
    IF die.children = <<>> THEN Result(c, 0, 0)
    ELSE InlineExpansionLoop(die.children, 1, c)

die__create_new_inline_expansion(die, lexblock, c) ==
    LET Attach(p, t) ==
            IF p.err # 0 THEN Result(p.c, 0, p.err)
            ELSE IF lexblock = 0 THEN Result(p.c, t, 0)
            ELSE Result([p.c EXCEPT !.heap[lexblock].ltags = Append(@, t)], t, 0)
        Fill(r) ==
            IF r.tag = 0 THEN r
            ELSE Attach(die__process_inline_expansion(die, r.c), r.tag)
    IN  Fill(inline_expansion__new(die, c))

die__create_new_parameter(die, ftype, lexblock, c) ==
    LET Attach(r) ==
            IF r.tag = 0 THEN r
            ELSE IF ftype # 0
            THEN [r EXCEPT !.c.heap[ftype].parms = Append(@, r.tag)]
            ELSE [r EXCEPT !.c.heap[lexblock].ltags = Append(@, r.tag)]
    IN  Attach(parameter__new(die, c))

\* lexblock__add_label, lexblock__add_variable
AddToLexblock(r, lexblock) ==
    IF r.tag = 0 THEN r
    ELSE [r EXCEPT !.c.heap[lexblock].ltags = Append(@, r.tag)]

die__create_new_label(die, lexblock, c) == AddToLexblock(label__new(die, c), lexblock)

die__create_new_variable(die, c) == variable__new(die, c)

InlineExpansionLoop(dies, i, c) ==
    LET Block(l) ==
            IF l.err # 0 THEN Failed(l.c, l) ELSE InlineExpansionLoop(dies, i + 1, l.c)
        Expansion(r) ==
            IF r.tag = 0 THEN Failed(r.c, r)
            ELSE InlineExpansionLoop(dies, i + 1,
                                     Inserted(cu__table_add_tag(r.c, r.tag), r.tag))
        Tag(r) ==
            IF r.tag = 0 THEN Failed(r.c, r)
            ELSE InlineExpansionLoop(dies, i + 1, Inserted(cu__add_tag(r.c, r.tag), r.tag))
    IN
    IF i > Len(dies) THEN Result(c, 0, 0)
    ELSE IF dies[i].tag = "lexical_block"
    THEN Block(die__create_new_lexblock(dies[i], c, 0))
    ELSE IF dies[i].tag = "formal_parameter"
    THEN InlineExpansionLoop(dies, i + 1, c)
    ELSE IF dies[i].tag = "inlined_subroutine"
    THEN Expansion(die__create_new_inline_expansion(dies[i], 0, c))
    ELSE Tag(die__process_tag(dies[i], c, FALSE))

FunctionLoop(dies, i, ftype, lexblock, c) ==
    LET Block(l) ==
            IF l.err # 0 THEN Failed(l.c, l)
            ELSE FunctionLoop(dies, i + 1, ftype, lexblock, l.c)
        \* a parameter, variable, label or inline expansion: cu__table_add_tag
        Child(r) ==
            IF r.tag = 0 THEN Failed(r.c, r)
            ELSE FunctionLoop(dies, i + 1, ftype, lexblock,
                              Inserted(cu__table_add_tag(r.c, r.tag), r.tag))
        Tag(r) ==
            IF r.tag = 0 THEN Failed(r.c, r)
            ELSE FunctionLoop(dies, i + 1, ftype, lexblock,
                              Inserted(cu__add_tag(r.c, r.tag), r.tag))
    IN
    IF i > Len(dies) THEN Result(c, 0, 0)
    ELSE
    CASE dies[i].tag \in {"template_type_parameter", "template_value_parameter"} ->
            FunctionLoop(dies, i + 1, ftype, lexblock, c)
      [] dies[i].tag = "unspecified_parameters" ->
            FunctionLoop(dies, i + 1, ftype, lexblock,
                         IF ftype # 0 THEN [c EXCEPT !.heap[ftype].unspec_parms = TRUE]
                         ELSE c)
      [] dies[i].tag = "lexical_block" ->
            Block(die__create_new_lexblock(dies[i], c, lexblock))
      [] dies[i].tag = "formal_parameter" ->
            Child(die__create_new_parameter(dies[i], ftype, lexblock, c))
      [] dies[i].tag = "variable" ->
            Child(AddToLexblock(die__create_new_variable(dies[i], c), lexblock))
      [] dies[i].tag = "label" ->
            Child(die__create_new_label(dies[i], lexblock, c))
      [] dies[i].tag = "inlined_subroutine" ->
            Child(die__create_new_inline_expansion(dies[i], lexblock, c))
      [] OTHER -> Tag(die__process_tag(dies[i], c, FALSE))

die__create_new_function(die, c) ==
    LET Fill(r) ==
            IF r.tag = 0 THEN r
            ELSE Created(die__process_function(die, r.tag, r.tag, r.c), r.tag)
    IN  Fill(function__new(die, c))

\* a function type that enters its parameters into no table
SubroutineTypeInsertNowhere(c, t) == [c |-> c, id |-> -1]

\* what die__create_new_subroutine_type does with a parameter it has made:
\* cu__table_add_tag, and not cu__add_tag as for the other children
SubroutineTypeInsert(c, t) == cu__table_add_tag(c, t)

SubroutineTypeLoop(dies, i, ftype, c) ==
    LET Parameter(r) ==
            IF r.tag = 0 THEN Result(r.c, 0, r.err)
            ELSE SubroutineTypeLoop(dies, i + 1, ftype,
                                    Inserted(SubroutineTypeInsert(r.c, r.tag), r.tag))
        Tag(r) ==
            IF r.tag = 0 THEN Result(r.c, 0, r.err)
            ELSE SubroutineTypeLoop(dies, i + 1, ftype,
                                    Inserted(cu__add_tag(r.c, r.tag), r.tag))
    IN
    IF i > Len(dies) THEN Result(c, ftype, 0)
    ELSE IF dies[i].tag = "unspecified_parameters"
    THEN SubroutineTypeLoop(dies, i + 1, ftype, [c EXCEPT !.heap[ftype].unspec_parms = TRUE])
    ELSE IF dies[i].tag = "formal_parameter"
    THEN Parameter(die__create_new_parameter(dies[i], ftype, 0, c))
    ELSE Tag(die__process_tag(dies[i], c, FALSE))

die__create_new_subroutine_type(die, c) ==
    LET Fill(r) ==
            IF r.tag = 0 \/ die.children = <<>> THEN r
            ELSE SubroutineTypeLoop(die.children, 1, r.tag, r.c)
    IN  Fill(ftype__new(die, c))

\* tag->top_level = top_level, for a tag that is not NULL
TopLevel(r, top_level) ==
    IF r.tag # 0 THEN [r EXCEPT !.c.heap[r.tag].top_level = top_level] ELSE r

die__process_tag(die, c, top_level) ==
    CASE die.tag = "array_type" -> TopLevel(die__create_new_array(die, c), top_level)
      [] die.tag = "base_type" -> TopLevel(base_type__new(die, c), top_level)
      [] die.tag \in {"const_type", "imported_declaration", "imported_module",
                      "pointer_type", "reference_type", "volatile_type"} ->
            TopLevel(tag__new(die, c), top_level)
      [] die.tag = "ptr_to_member_type" ->
            TopLevel(ptr_to_member_type__new(die, c), top_level)
      [] die.tag = "enumeration_type" ->
            TopLevel(die__create_new_enumeration(die, c), top_level)
      [] die.tag = "namespace" -> TopLevel(die__create_new_namespace(die, c), top_level)
      [] die.tag \in {"class_type", "interface_type", "structure_type"} ->
            TopLevel(die__create_new_class(die, c), top_level)
      [] die.tag = "subprogram" -> TopLevel(die__create_new_function(die, c), top_level)
      [] die.tag = "subroutine_type" ->
            TopLevel(die__create_new_subroutine_type(die, c), top_level)
      [] die.tag = "typedef" -> TopLevel(type__new(die, c), top_level)
      [] die.tag = "union_type" -> TopLevel(die__create_new_union(die, c), top_level)
      [] die.tag = "variable" -> TopLevel(die__create_new_variable(die, c), top_level)
      [] OTHER -> Result(c, 0, 0)

\* one iteration of the do-while loop of die__process_unit
die__process_unit(die, c) ==
    LET Tag(r) ==
            IF r.tag = 0 THEN Failed(r.c, r)
            ELSE Result(Inserted(cu__add_tag(r.c, r.tag), r.tag), r.tag, 0)
    IN  Tag(die__process_tag(die, c, TRUE))

(***************************************************************************)
(* The bitfield recoder.                                                   *)
(***************************************************************************)
\* the first index of the types table holding a tag of this kind, name and width
FindBySnameAndSize(c, kind, name, bit_size) ==
    LET m == {j \in 2..Len(c.types_table) :
                 LET e == c.heap[c.types_table[j]]
                 IN  /\ e.tag = kind
                     /\ e.name = name
                     /\ (IF kind = "base_type" THEN e.bit_size ELSE e.size) = bit_size}
    IN  IF m = {} THEN -1 ELSE Min(m) - 1

cu__find_base_type_by_sname_and_size(c, name, bit_size) ==
    FindBySnameAndSize(c, "base_type", name, bit_size)

cu__find_enumeration_by_sname_and_size(c, name, bit_size) ==
    FindBySnameAndSize(c, "enumeration_type", name, bit_size)

\* obstack_zalloc of the recoded tag, then cu__add_tag(cu, recoded, &new_id)
\* a recoder that looks for the tag it is about to make among the tags it
\* has made, and shares it
AddRecodedShared(c, rec) ==
    LET new  == [rec EXCEPT !.priv = FALSE, !.small_id = 0]
        same == {i \in 1..(Len(c.types_table) - 1) : c.heap[c.types_table[i + 1]] = new}
    IN  IF same # {} THEN [c |-> c, ret |-> Min(same)]
        ELSE IF c.fuel = 0 THEN [c |-> [c EXCEPT !.oom = TRUE], ret |-> -ENOMEM]
        ELSE LET r == __tag__alloc(c, new)
                 a == cu__add_tag(r.c, r.tag)
             IN  [c |-> a.c, ret |-> a.id]

AddRecoded(c, rec) ==
    IF c.fuel = 0 THEN [c |-> [c EXCEPT !.oom = TRUE], ret |-> -ENOMEM]
    ELSE LET r == __tag__alloc(c, [rec EXCEPT !.priv = FALSE, !.small_id = 0])
             a == cu__add_tag(r.c, r.tag)
         IN  [c |-> a.c, ret |-> a.id]

\* the wrapper tag__recode_dwarf_bitfield makes for the typedef, const or
\* volatile self, pointing at the recoded target id
RecodedWrapper(self, id) ==
    IF self.tag = "typedef"
    THEN [ZeroTag EXCEPT !.tag = "typedef", !.type = id, !.name = self.name]
    ELSE [ZeroTag EXCEPT !.tag = "volatile_type", !.type = id]

\* a recoder that gives the new base type the width of the old one
RecodedBaseTypeWide(self, bit_size) ==
    [ZeroTag EXCEPT !.tag = "base_type", !.top_level = TRUE,
                    !.name = self.name, !.bit_size = self.bit_size]

\* the base type it makes for the base type self
RecodedBaseType(self, bit_size) ==
    [ZeroTag EXCEPT !.tag = "base_type", !.top_level = TRUE,
                    !.name = self.name, !.bit_size = bit_size]

\* a recoder that gives the new enumeration a list of its own
RecodedEnumerationCopy(self, t, bit_size) ==
    [ZeroTag EXCEPT !.tag = "enumeration_type", !.top_level = TRUE,
                    !.nr_members = self.nr_members, !.tags = self.tags,
                    !.name = self.name, !.size = bit_size]

\* the enumeration it makes for the enumeration self, which is tag t: the
\* list head of the new one points at the list of t
RecodedEnumeration(self, t, bit_size) ==
    [ZeroTag EXCEPT !.tag = "enumeration_type", !.top_level = TRUE,
                    !.nr_members = self.nr_members, !.alias = t,
                    !.shared_tags = TRUE, !.name = self.name, !.size = bit_size]

\* type__for_each_enumerator: the list an enumeration is read through, which
\* for shared_tags is the list its own list head points at
type__for_each_enumerator(c, e) ==
    IF c.heap[e].shared_tags THEN c.heap[c.heap[e].alias].tags ELSE c.heap[e].tags

RECURSIVE tag__recode_dwarf_bitfield(_, _, _)
tag__recode_dwarf_bitfield(c, t, bit_size) ==
    LET self == c.heap[t]
    IN
    CASE self.tag \in {"typedef", "const_type", "volatile_type"} ->
            LET dtype == dwarf_cu__find_type_by_id(c, self.dtype)
            IN  IF dtype = 0 THEN [c |-> c, ret |-> -SEGV]
                ELSE LET r  == tag__recode_dwarf_bitfield(c, dtype, bit_size)
                         \* uint16_t id = the int the recursive call returned
                         id == r.ret % U16
                     IN  IF r.ret = -SEGV THEN r
                         ELSE IF id = self.type THEN [c |-> r.c, ret |-> id]
                         ELSE AddRecoded(r.c, RecodedWrapper(self, id))
      [] self.tag = "base_type" ->
            LET id == cu__find_base_type_by_sname_and_size(c, self.name, bit_size)
            IN  IF id >= 0 THEN [c |-> c, ret |-> id % U16]
                ELSE AddRecoded(c, RecodedBaseType(self, bit_size))
      [] self.tag = "enumeration_type" ->
            LET id == cu__find_enumeration_by_sname_and_size(c, self.name, bit_size)
            IN  IF id >= 0 THEN [c |-> c, ret |-> id % U16]
                ELSE AddRecoded(c, RecodedEnumeration(self, t, bit_size))
      [] OTHER -> [c |-> c, ret |-> -EINVAL]

class_member__dwarf_recode_bitfield(c, m) ==
    LET type == dwarf_cu__find_type_by_id(c, c.heap[m].dtype)
    IN  IF type = 0 THEN [c |-> c, err |-> -SEGV]
        ELSE LET r == tag__recode_dwarf_bitfield(c, type, c.heap[m].bitfield_size)
             IN  IF r.ret < 0 THEN [c |-> r.c, err |-> r.ret]
                 ELSE [c |-> [r.c EXCEPT !.heap[m].type = r.ret % U16], err |-> 0]

(***************************************************************************)
(* The reference resolver.                                                 *)
(***************************************************************************)
\* what a caller that answers any failure with -1 returns
Minus1(r) == [c |-> r.c, err |-> IF r.err = -SEGV THEN -SEGV ELSE -1]

RECURSIVE FtypeLoop(_, _, _)
FtypeLoop(c, parms, i) ==
    IF i > Len(parms) THEN c
    ELSE
    LET pos  == parms[i]
        dpos == c.heap[pos]
    IN
    IF dpos.dtype = 0
    THEN IF dpos.abstract_origin = 0
         THEN FtypeLoop([c EXCEPT !.heap[pos].type = 0], parms, i + 1)
         ELSE LET dtype == dwarf_cu__find_tag_by_id(c, dpos.abstract_origin)
              IN  IF dtype = 0 THEN FtypeLoop(c, parms, i + 1)
                  ELSE FtypeLoop([c EXCEPT !.heap[pos].name = c.heap[dtype].name,
                                           !.heap[pos].type = c.heap[dtype].type],
                                 parms, i + 1)
    ELSE LET dtype == dwarf_cu__find_type_by_id(c, dpos.dtype)
         IN  IF dtype = 0 THEN FtypeLoop(c, parms, i + 1)
             ELSE FtypeLoop([c EXCEPT !.heap[pos].type = c.heap[dtype].small_id],
                            parms, i + 1)

\* a resolver that leaves the parameters as the builder made them
ftype__recode_dwarf_typesNot(c, t) == c

ftype__recode_dwarf_types(c, t) == FtypeLoop(c, c.heap[t].parms, 1)

RECURSIVE LexblockLoop(_, _, _)
lexblock__recode_dwarf_types(c, t) == LexblockLoop(c, c.heap[t].ltags, 1)

LexblockLoop(c, tags, i) ==
    IF i > Len(tags) THEN c
    ELSE
    LET pos  == tags[i]
        dpos == c.heap[pos]
        k    == dpos.tag
        byorigin == dwarf_cu__find_tag_by_id(c, dpos.abstract_origin)
        bytype   == dwarf_cu__find_type_by_id(c, dpos.dtype)
    IN
    CASE k = "lexical_block" ->
            LexblockLoop(lexblock__recode_dwarf_types(c, pos), tags, i + 1)
      [] k = "inlined_subroutine" ->
            LET dtype == dwarf_cu__find_tag_by_id(c, dpos.dtype)
            IN  IF dtype = 0 THEN LexblockLoop(c, tags, i + 1)
                ELSE LexblockLoop(ftype__recode_dwarf_types(c, dtype), tags, i + 1)
      [] k \in {"formal_parameter", "variable"} /\ dpos.dtype = 0 ->
            IF byorigin = 0 THEN LexblockLoop(c, tags, i + 1)
            ELSE LexblockLoop([c EXCEPT !.heap[pos].name = c.heap[byorigin].name,
                                        !.heap[pos].type = c.heap[byorigin].type],
                              tags, i + 1)
      [] k = "label" ->
            IF byorigin = 0 THEN LexblockLoop(c, tags, i + 1)
            ELSE LexblockLoop([c EXCEPT !.heap[pos].name = c.heap[byorigin].name],
                              tags, i + 1)
      [] OTHER ->
            IF bytype = 0 THEN LexblockLoop(c, tags, i + 1)
            ELSE LexblockLoop([c EXCEPT !.heap[pos].type = c.heap[bytype].small_id],
                              tags, i + 1)

RECURSIVE NamespaceLoop(_, _, _)
namespace__recode_dwarf_types(c, t) == NamespaceLoop(c, c.heap[t].tags, 1)

NamespaceLoop(c, tags, i) ==
    IF i > Len(tags) THEN [c |-> c, err |-> 0]
    ELSE
    LET pos == tags[i]
        k   == c.heap[pos].tag
    IN
    IF tag__has_namespace(k)
    THEN LET r == namespace__recode_dwarf_types(c, pos)
         IN  IF r.err # 0 THEN Minus1(r) ELSE NamespaceLoop(r.c, tags, i + 1)
    ELSE IF k = "member" /\ c.heap[pos].bitfield_size # 0
    THEN LET r == class_member__dwarf_recode_bitfield(c, pos)
         IN  IF r.err # 0 THEN Minus1(r) ELSE NamespaceLoop(r.c, tags, i + 1)
    ELSE
    LET c1   == IF k \in {"subroutine_type", "subprogram"}
                THEN ftype__recode_dwarf_types(c, pos) ELSE c
        dpos == c1.heap[pos]
        bytag  == dwarf_cu__find_tag_by_id(c1, dpos.dtype)
        bytype == dwarf_cu__find_type_by_id(c1, dpos.dtype)
        dtype == CASE k = "imported_module" -> bytag
                   [] k = "imported_declaration" -> IF bytag # 0 THEN bytag ELSE bytype
                   [] OTHER -> bytype
    IN  IF dtype = 0 THEN NamespaceLoop(c1, tags, i + 1)
        ELSE NamespaceLoop([c1 EXCEPT !.heap[pos].type = c1.heap[dtype].small_id],
                           tags, i + 1)

type__recode_dwarf_specification(c, t) ==
    LET self  == c.heap[t]
        dtype == dwarf_cu__find_type_by_id(c, self.spec)
    IN  IF self.name # "" \/ self.spec = 0 \/ dtype = 0 THEN c
        ELSE [c EXCEPT !.heap[t].name = c.heap[dtype].name]

\* a resolver that looks at the specification before the abstract origin
RecodeSubprogramNameBySpec(c, t) ==
    LET dtag  == c.heap[t]
        spec  == dwarf_cu__find_tag_by_id(c, dtag.spec)
        dtype == IF spec # 0 THEN spec ELSE dwarf_cu__find_tag_by_id(c, dtag.abstract_origin)
    IN  IF dtag.name # "" \/ dtype = 0 THEN c
        ELSE [c EXCEPT !.heap[t].name = c.heap[dtype].name]

\* the DW_TAG_subprogram case of tag__recode_dwarf_type, up to its fall through
RecodeSubprogramName(c, t) ==
    LET dtag   == c.heap[t]
        origin == dwarf_cu__find_tag_by_id(c, dtag.abstract_origin)
        dtype  == IF origin # 0 THEN origin ELSE dwarf_cu__find_tag_by_id(c, dtag.spec)
    IN  IF dtag.name # "" \/ dtype = 0 THEN c
        ELSE [c EXCEPT !.heap[t].name = c.heap[dtype].name]

\* a resolver that takes every tag for one with raw metadata
AlreadyRecodedNever(self) == FALSE

\* if (dtag == NULL) return 0: an already recoded bitfield
AlreadyRecoded(self) == ~self.priv

tag__recode_dwarf_type(c, t) ==
    LET self == c.heap[t]
        k    == self.tag
    IN
    IF AlreadyRecoded(self) THEN [c |-> c, err |-> 0]
    ELSE
    LET c1 == IF tag__is_type(k) THEN type__recode_dwarf_specification(c, t) ELSE c
    IN
    IF tag__has_namespace(k) THEN namespace__recode_dwarf_types(c1, t)
    ELSE IF k = "subprogram" /\ self.name = "" /\ self.abstract_origin = 0 /\ self.spec = 0
    THEN [c |-> c1, err |-> 0]
    ELSE IF k = "lexical_block"
    THEN [c |-> lexblock__recode_dwarf_types(c1, t), err |-> 0]
    ELSE
    LET c2 == CASE k = "subprogram" ->
                     ftype__recode_dwarf_types(
                         lexblock__recode_dwarf_types(RecodeSubprogramName(c1, t), t), t)
                [] k = "subroutine_type" -> ftype__recode_dwarf_types(c1, t)
                [] k = "ptr_to_member_type" ->
                     LET ct == dwarf_cu__find_type_by_id(c1, self.abstract_origin)
                     IN  IF ct = 0 THEN c1
                         ELSE [c1 EXCEPT !.heap[t].containing_type = c1.heap[ct].small_id]
                [] OTHER -> c1
        bytag  == dwarf_cu__find_tag_by_id(c2, self.dtype)
        bytype == dwarf_cu__find_type_by_id(c2, self.dtype)
        dtype == CASE k \in {"inlined_subroutine", "imported_module"} -> bytag
                   [] k = "imported_declaration" -> IF bytag # 0 THEN bytag ELSE bytype
                   [] OTHER -> bytype
    IN  IF k \notin {"inlined_subroutine", "imported_module", "imported_declaration"}
           /\ self.dtype = 0
        THEN [c |-> [c2 EXCEPT !.heap[t].type = 0], err |-> 0]
        ELSE IF dtype = 0 THEN [c |-> c2, err |-> 0]
        ELSE [c |-> [c2 EXCEPT !.heap[t].type = c2.heap[dtype].small_id], err |-> 0]

\* cu__recode_dwarf_types_table from entry i on
RECURSIVE cu__recode_dwarf_types_table(_, _, _)
cu__recode_dwarf_types_table(c, pt, i) ==
    IF i >= Len(c[pt]) THEN [c |-> c, err |-> 0]
    ELSE LET tag == c[pt][i + 1]
             r   == IF tag # 0 THEN tag__recode_dwarf_type(c, tag) ELSE [c |-> c, err |-> 0]
         IN  IF r.err # 0 THEN Minus1(r)
             ELSE cu__recode_dwarf_types_table(r.c, pt, i + 1)

cu__recode_dwarf_types(c) ==
    LET r1 == cu__recode_dwarf_types_table(c, "types_table", 1)
        r2 == cu__recode_dwarf_types_table(r1.c, "tags_table", 0)
        r3 == cu__recode_dwarf_types_table(r2.c, "functions_table", 0)
    IN  IF r1.err # 0 THEN r1 ELSE IF r2.err # 0 THEN r2 ELSE r3

(***************************************************************************)
(* The post-load size cache.                                               *)
(***************************************************************************)
cu__type(c, id) == IF id < Len(c.types_table) THEN c.types_table[id + 1] ELSE 0

RECURSIVE tag__follow_typedef(_, _)
tag__follow_typedef(c, t) ==
    LET type == cu__type(c, c.heap[t].type)
    IN  IF type # 0 /\ c.heap[type].tag = "typedef" THEN tag__follow_typedef(c, type)
        ELSE type

\* the check_volatile loop of class_member__cache_byte_size
RECURSIVE CheckVolatile(_, _)
CheckVolatile(c, type) ==
    IF type = 0 THEN 0
    ELSE IF c.heap[type].tag \in {"volatile_type", "const_type"}
         THEN CheckVolatile(c, tag__follow_typedef(c, type))
         ELSE type

\* bits of the integral type of this name, 0 when the name is not known
base_type__name_to_size(name) ==
    CASE name \in {"char", "signed char", "unsigned char", "_Bool"} -> 8
      [] name \in {"short int", "short unsigned int"} -> 16
      [] name \in {"int", "unsigned int", "float"} -> 32
      [] name \in {"long int", "long unsigned int", "long long int",
                   "long long unsigned int", "double"} -> 64
      [] OTHER -> 0

RECURSIVE tag__size(_, _)
tag__size(c, t) ==
    LET self == c.heap[t]
        type == cu__type(c, self.type)
    IN  CASE self.tag = "member" /\ self.byte_size # 0 -> self.byte_size
          [] self.tag \in {"pointer_type", "reference_type"} -> 8
          [] self.tag = "base_type" -> self.bit_size \div 8
          [] self.tag = "enumeration_type" -> self.size \div 8
          [] OTHER -> IF self.type = 0 THEN self.size
                      ELSE IF type = 0 THEN 0
                      ELSE tag__size(c, type)

\* a cache that packs the members it sizes to the start of their struct
class_member__cache_byte_sizePacks(c, m, cnf) ==
    IF c.heap[m].tag \notin {"member", "inheritance"} THEN [c |-> c, err |-> 0]
    ELSE [c |-> [c EXCEPT !.heap[m].byte_size = tag__size(c, m),
                          !.heap[m].mbit_size = tag__size(c, m) * 8,
                          !.heap[m].byte_offset = 0],
          err |-> 0]

\* a cache that takes every member for a member that is no bitfield
class_member__cache_byte_sizePlain(c, m, cnf) ==
    IF c.heap[m].tag \notin {"member", "inheritance"} THEN [c |-> c, err |-> 0]
    ELSE [c |-> [c EXCEPT !.heap[m].byte_size = tag__size(c, m),
                          !.heap[m].mbit_size = tag__size(c, m) * 8],
          err |-> 0]

\* a cache that normalizes without being asked to
fixup_silly_bitfieldsAlways(member, cnf) ==
    [member EXCEPT !.bitfield_size = 0, !.bitfield_offset = 0]

\* if (conf_load && conf_load->fixup_silly_bitfields) { ... }
fixup_silly_bitfields(member, cnf) ==
    IF cnf.present /\ cnf.fixup_silly_bitfields
    THEN [member EXCEPT !.bitfield_size = 0, !.bitfield_offset = 0]
    ELSE member

class_member__cache_byte_size(c, m, cnf) ==
    LET self == c.heap[m]
        type == CheckVolatile(c, tag__follow_typedef(c, m))
        enum == c.heap[type].tag = "enumeration_type"
        type_bit_size == IF enum THEN c.heap[type].size ELSE c.heap[type].bit_size
        integral_bit_size == IF enum THEN 32 ELSE base_type__name_to_size(c.heap[type].name)
        size == tag__size(c, m)
    IN
    IF self.tag \notin {"member", "inheritance"} THEN [c |-> c, err |-> 0]
    ELSE IF self.bitfield_size = 0
    THEN [c |-> [c EXCEPT !.heap[m].byte_size = size, !.heap[m].mbit_size = size * 8],
          err |-> 0]
    ELSE IF type = 0 THEN [c |-> c, err |-> -SEGV]
    ELSE
    LET c1 == [c EXCEPT !.heap[m].byte_size = integral_bit_size \div 8]
    IN  IF integral_bit_size = 0 THEN [c |-> c1, err |-> 0]
        ELSE IF type_bit_size = integral_bit_size
        THEN [c |-> [c1 EXCEPT
                        !.heap[m] = fixup_silly_bitfields(
                                        [@ EXCEPT !.mbit_size = integral_bit_size], cnf)],
              err |-> 0]
        ELSE [c |-> [c1 EXCEPT !.heap[m].mbit_size = type_bit_size], err |-> 0]

\* cu__for_all_tags(cu, class_member__cache_byte_size, conf)
RECURSIVE cu__for_all_tags(_, _, _)
cu__for_all_tags(c, cnf, m) ==
    IF m > Len(c.heap) THEN [c |-> c, err |-> 0]
    ELSE LET r == class_member__cache_byte_size(c, m, cnf)
         IN  IF r.err # 0 THEN r ELSE cu__for_all_tags(r.c, cnf, m + 1)

(***************************************************************************)
(* Number decoding.  A uint64_t is the set of the positions of its one     *)
(* bits, so that |= is union and << moves positions and drops those past   *)
(* the width.                                                              *)
(***************************************************************************)
UINT64_MAX == 0..(Width - 1)

\* 2^n
RECURSIVE Pow2(_)
Pow2(n) == IF n = 0 THEN 1 ELSE 2 * Pow2(n - 1)

\* (uintmax_t) b, for a byte b
Bits(b) == {p \in 0..7 : (b \div Pow2(p)) % 2 = 1}

\* v << n
ShiftLeft(v, n) == {p + n : p \in v} \cap UINT64_MAX

\* a step that forgets the mask
get_uleb128_stepUnmasked(var, b, nth) == var \cup ShiftLeft(Bits(b), nth * 7)

\* var |= (uintmax_t) (__b & 0x7f) << (nth * 7)
get_uleb128_step(var, b, nth) == var \cup ShiftLeft(Bits(b % Continuation), nth * 7)

\* the bytes the program may find in the expression block
Bytes == {0, 1, 2, 127, 128, 255}

Opcodes == {DW_OP_plus_uconst, DW_OP_constu, DW_OP_fbreg, DW_OP_addr}

IdleExpr == [pc |-> "idle", expr |-> <<>>, var |-> {}, i |-> 0, result |-> {}]

(***************************************************************************)
(* The driver: dwarf__load_file, cus__process_file, cus__process_dwflmod   *)
(* and cus__load_module.                                                   *)
(***************************************************************************)
Confs ==
    {[present |-> FALSE, extra_dbg_info |-> FALSE, get_addr_info |-> FALSE,
      fixup_silly_bitfields |-> FALSE, steal |-> FALSE]}
    \cup
    {[present |-> TRUE, extra_dbg_info |-> e, get_addr_info |-> a,
      fixup_silly_bitfields |-> f, steal |-> s] :
        e \in BOOLEAN, a \in BOOLEAN, f \in BOOLEAN, s \in BOOLEAN}

Fuels == {-1} \cup 0..MaxFuel

\* what uncleared obstack memory may hold
Junk == 0..MaxJunk

Event(ev, r) == [ev |-> ev, cu |-> ncu, mod |-> mod, off |-> off, r |-> r]

InitWith(l, cs) ==
    /\ limits = l
    /\ conf \in cs
    /\ pc = "start"
    /\ mod = 0
    /\ cb = "DWARF_CB_OK"
    /\ found = 0
    /\ off = 0
    /\ ncu = 0
    /\ cu = NoCU
    /\ lastdie = 0
    /\ ndies = 0
    /\ rt = [pt |-> "types_table", i |-> 1]
    /\ cus = <<>>
    /\ ret = 0
    /\ log = <<>>
    /\ dx = IdleExpr

\* a file of several modules of several small C CUs
Init ==
    InitWith([modules |-> MaxModules, cus |-> MaxCUs, dies |-> DriverDies,
              menu |-> SmallMenu, languages |-> {"C89"}, fuels |-> {-1, 0}], Confs)

\* a file of one CU with up to MaxDies top-level DIEs
InitCU ==
    InitWith([modules |-> 1, cus |-> 1, dies |-> MaxDies, menu |-> RichMenu,
              languages |-> {"C89", "C_plus_plus"}, fuels |-> Fuels],
             {cf \in Confs : ~cf.present \/ (cf.steal /\ ~cf.extra_dbg_info /\
                                             ~cf.get_addr_info /\
                                             ~cf.fixup_silly_bitfields)})

\* a file of one C CU of variables and code, loaded with and without the
\* address information
InitAddr ==
    InitWith([modules |-> 1, cus |-> 1, dies |-> AddrDies, menu |-> AddrMenu,
              languages |-> {"C89"}, fuels |-> {-1}],
             {cf \in Confs : ~cf.present \/ (~cf.steal /\ ~cf.extra_dbg_info /\
                                             ~cf.fixup_silly_bitfields)})

\* a file of one CU of structures with bitfields, loaded with and without
\* fixup_silly_bitfields
InitFixup ==
    InitWith([modules |-> 1, cus |-> 1, dies |-> MaxDies, menu |-> FixupMenu,
              languages |-> {"C89", "C_plus_plus"}, fuels |-> Fuels],
             {cf \in Confs : ~cf.present \/ (~cf.steal /\ ~cf.extra_dbg_info /\
                                             ~cf.get_addr_info)})

\* a file of one CU of functions whose parameters name their origins
InitOrigin ==
    InitWith([modules |-> 1, cus |-> 1, dies |-> MaxDies, menu |-> OriginMenu,
              languages |-> {"C89", "C_plus_plus"}, fuels |-> {-1}],
             {cf \in Confs : ~cf.present \/ (~cf.extra_dbg_info /\ ~cf.get_addr_info /\
                                             ~cf.fixup_silly_bitfields)})

\* open(), dup() and dwfl_report_offline()
dwarf__load_file ==
    /\ pc = "start"
    /\ \E ok \in BOOLEAN :
          IF ok THEN pc' = "getmodules" /\ ret' = ret
          ELSE pc' = "done" /\ ret' = -1
    /\ UNCHANGED <<dx, limits, conf, mod, cb, found, off, ncu, cu, lastdie, ndies, rt, cus, log>>

\* dwfl_getmodules hands the next module to the callback
cus__process_dwflmod ==
    /\ pc = "getmodules"
    /\ cb = "DWARF_CB_OK"
    /\ mod < limits.modules
    /\ mod' = mod + 1
    /\ \E dw \in BOOLEAN :
          IF dw THEN found' = found + 1 /\ pc' = "nextcu"
          ELSE found' = found /\ pc' = pc
    /\ off' = 0
    /\ UNCHANGED <<dx, limits, conf, cb, ncu, cu, lastdie, ndies, rt, cus, ret, log>>

\* dwfl_getmodules is over: there is no module left or the callback did not
\* return DWARF_CB_OK
cus__process_file ==
    /\ pc = "getmodules"
    /\ pc' = "done"
    /\ ret' = IF found # 0 THEN 0 ELSE -1
    /\ UNCHANGED <<dx, limits, conf, mod, cb, found, off, ncu, cu, lastdie, ndies, rt, cus, log>>

\* cus__load_module returns to dwfl_getmodules
Return(code) == pc' = "getmodules" /\ cb' = code

\* the head of the loop of cus__load_module: dwarf_nextcu and cu__new
cus__load_module ==
    /\ pc = "nextcu"
    /\ \E has \in BOOLEAN, new \in BOOLEAN, fuel \in limits.fuels :
          /\ has => ncu < limits.cus
          /\ IF ~has
             THEN Return("DWARF_CB_OK") /\ UNCHANGED <<cu, ncu, log>>
             ELSE IF ~new
             THEN /\ Return("DWARF_CB_ABORT")
                  /\ cu' = cu
                  /\ ncu' = ncu + 1
                  /\ log' = Append(log, [Event("new_failed", "oom") EXCEPT !.cu = ncu + 1])
             ELSE /\ cu' = cu__new("none", conf, fuel)
                  /\ ncu' = ncu + 1
                  /\ log' = Append(log, [Event("new", "") EXCEPT !.cu = ncu + 1])
                  /\ pc' = "die__process"
                  /\ cb' = cb
    /\ lastdie' = 0
    /\ ndies' = 0
    /\ rt' = [pt |-> "types_table", i |-> 1]
    /\ UNCHANGED <<dx, limits, conf, mod, found, off, cus, ret>>

\* die__process up to its call of die__process_unit
die__process ==
    /\ pc = "die__process"
    /\ \E root \in {"compile_unit", "partial_unit"},
          language \in limits.languages,
          child \in BOOLEAN :
          IF root # "compile_unit"
          THEN Return("DWARF_CB_ABORT") /\ cu' = cu
               /\ log' = Append(log, Event("build_failed", "root"))
          ELSE /\ cu' = [cu EXCEPT !.language = language]
               /\ cb' = cb
               /\ IF child THEN pc' = "die__process_unit" /\ log' = log
                  ELSE pc' = "recode" /\ log' = Append(log, Event("build", ""))
    /\ UNCHANGED <<dx, limits, conf, mod, found, off, ncu, lastdie, ndies, rt, cus, ret>>

\* one iteration of die__process_unit: the cursor yields a DIE, and last
\* tells whether dwarf_siblingof then finds no sibling
ProcessUnit ==
    /\ pc = "die__process_unit"
    /\ \E die \in limits.menu, last \in BOOLEAN, junk \in Junk :
          /\ die.off > lastdie
          /\ ~last => /\ ndies + 1 < limits.dies
                      /\ \E d \in limits.menu : d.off > die.off
          /\ LET K(r0) == [r0 EXCEPT !.c.junk = 0]
                 r == K(die__process_unit(die, [cu EXCEPT !.junk = junk]))
             IN  IF r.err = -SEGV
                 THEN pc' = "crashed" /\ cb' = cb /\ cu' = r.c /\ log' = log
                 ELSE IF r.err # 0
                 THEN Return("DWARF_CB_ABORT") /\ cu' = r.c
                      /\ log' = Append(log, Event("build_failed",
                                                  IF r.c.oom THEN "oom" ELSE die.tag))
                 ELSE /\ cu' = r.c
                      /\ cb' = cb
                      /\ IF last THEN pc' = "recode" /\ log' = Append(log, Event("build", ""))
                         ELSE pc' = pc /\ log' = log
          /\ lastdie' = die.off
    /\ ndies' = ndies + 1
    /\ UNCHANGED <<dx, limits, conf, mod, found, off, ncu, rt, cus, ret>>

NextTable(pt) == IF pt = "types_table" THEN "tags_table" ELSE "functions_table"

\* one iteration of cu__recode_dwarf_types_table, or the step to the next table
RecodeStep ==
    /\ pc = "recode"
    /\ IF rt.i < Len(cu[rt.pt])
       THEN LET tag == cu[rt.pt][rt.i + 1]
                r   == IF tag # 0 THEN tag__recode_dwarf_type(cu, tag)
                       ELSE [c |-> cu, err |-> 0]
            IN  /\ cu' = r.c
                /\ rt' = [rt EXCEPT !.i = @ + 1]
                /\ IF r.err = -SEGV THEN pc' = "crashed" /\ cb' = cb /\ log' = log
                   ELSE IF r.err # 0
                   THEN Return("DWARF_CB_ABORT")
                        /\ log' = Append(log, Event("resolve_failed",
                                                    IF r.c.oom THEN "oom" ELSE "recode"))
                   ELSE pc' = pc /\ cb' = cb /\ log' = log
       ELSE /\ cu' = cu
            /\ cb' = cb
            /\ IF rt.pt = "functions_table"
               THEN pc' = "cache" /\ rt' = rt /\ log' = Append(log, Event("resolve", ""))
               ELSE pc' = pc /\ rt' = [pt |-> NextTable(rt.pt), i |-> 0] /\ log' = log
    /\ UNCHANGED <<dx, limits, conf, mod, found, off, ncu, lastdie, ndies, cus, ret>>

\* a driver that forgets off = noff
NextOffsetStuck(o) == o

\* noff: the offset dwarf_nextcu reports for the CU after the one at o
NextOffset(o) == o + 1

\* base_type_name_to_size_table__init, cu__for_all_tags and off = noff
CacheSizes ==
    /\ pc = "cache"
    /\ LET r == cu__for_all_tags(cu, conf, 1)
       IN  /\ cu' = r.c
           /\ IF r.err # 0 THEN pc' = "crashed" /\ log' = log /\ off' = off
              ELSE /\ pc' = "steal"
                   /\ log' = Append(log, Event("cache", ""))
                   /\ off' = NextOffset(off)
    /\ UNCHANGED <<dx, limits, conf, mod, cb, found, ncu, lastdie, ndies, rt, cus, ret>>

\* a driver that takes LSK__STOLEN for LSK__KEEPIT
AfterStealKeepsStolen(r) ==
    CASE r = "LSK__STOP_LOADING" -> "return"
      [] OTHER -> "keep"

\* a driver that takes LSK__STOP_LOADING for LSK__STOLEN
AfterStealIgnoresStop(r) ==
    CASE r \in {"LSK__STOP_LOADING", "LSK__STOLEN"} -> "continue"
      [] OTHER -> "keep"

\* what cus__load_module does with the CU: the answer of the stealer, or
\* LSK__KEEPIT when there is none
AfterSteal(r) ==
    CASE r = "LSK__STOP_LOADING" -> "return"
      [] r = "LSK__STOLEN" -> "continue"
      [] OTHER -> "keep"

\* obstack_free(&dcu.obstack, NULL) unless extra_dbg_info
FreeRaw(c) == IF ~c.extra_dbg_info THEN [c EXCEPT !.obstack = "freed"] ELSE c

Steal ==
    /\ pc = "steal"
    /\ \E r \in {"LSK__STOP_LOADING", "LSK__STOLEN", "LSK__KEEPIT", "none"} :
          /\ (r = "none") = ~(conf.present /\ conf.steal)
          /\ LET do  == AfterSteal(r)
                 c1  == IF do = "keep" THEN FreeRaw(cu) ELSE cu
                 ev  == Event("steal", r)
                 end == Event("done", c1.obstack)
             IN  /\ cu' = c1
                 /\ log' = IF r = "none" THEN Append(log, end)
                           ELSE Append(Append(log, ev), end)
                 /\ cus' = IF do = "keep" THEN Append(cus, ncu) ELSE cus
                 /\ IF do = "return" THEN Return("DWARF_CB_ABORT")
                    ELSE pc' = "nextcu" /\ cb' = cb
    /\ UNCHANGED <<dx, limits, conf, mod, found, off, ncu, lastdie, ndies, rt, ret>>

Next ==
    \/ dwarf__load_file
    \/ cus__process_dwflmod
    \/ cus__process_file
    \/ cus__load_module
    \/ die__process
    \/ ProcessUnit
    \/ RecodeStep
    \/ CacheSizes
    \/ Steal

Spec == Init /\ [][Next]_vars

SpecCU == InitCU /\ [][Next]_vars

SpecAddr == InitAddr /\ [][Next]_vars

SpecFixup == InitFixup /\ [][Next]_vars

SpecOrigin == InitOrigin /\ [][Next]_vars

\* the loader of SpecFixup as a program that runs on: the loop of
\* cu__recode_dwarf_types_table takes its next turn whenever it has one

(***************************************************************************)
(* dwarf_expr on its own: attr_offset hands it the block of an attribute,  *)
(* whose bytes are read one by one as the decoder asks for them.           *)
(***************************************************************************)
InitExpr ==
    /\ limits = [modules |-> 0, cus |-> 0, dies |-> 0, menu |-> {},
                 languages |-> {}, fuels |-> {}]
    /\ conf = [present |-> FALSE, extra_dbg_info |-> FALSE, get_addr_info |-> FALSE,
               fixup_silly_bitfields |-> FALSE, steal |-> FALSE]
    /\ pc = "attr_offset"
    /\ mod = 0
    /\ cb = "DWARF_CB_OK"
    /\ found = 0
    /\ off = 0
    /\ ncu = 0
    /\ cu = NoCU
    /\ lastdie = 0
    /\ ndies = 0
    /\ rt = [pt |-> "types_table", i |-> 1]
    /\ cus = <<>>
    /\ ret = 0
    /\ log = <<>>
    /\ dx = [IdleExpr EXCEPT !.pc = "dwarf_expr"]

Loader == <<limits, conf, pc, mod, cb, found, off, ncu, cu, lastdie, ndies, rt, cus, ret, log>>

\* expr[0] is compared with the two opcodes; ++expr
dwarf_expr ==
    /\ dx.pc = "dwarf_expr"
    /\ \E atom \in Opcodes :
          dx' = IF atom \in {DW_OP_plus_uconst, DW_OP_constu}
                THEN [dx EXCEPT !.pc = "get_uleb128", !.expr = <<atom>>]
                ELSE [dx EXCEPT !.pc = "returned", !.expr = <<atom>>,
                                !.result = UINT64_MAX]
    /\ UNCHANGED Loader

\* var = 0 and the step on the first byte, which ends the decoding when the
\* byte has no continuation bit
get_uleb128 ==
    /\ dx.pc = "get_uleb128"
    /\ \E b \in Bytes :
          LET var == get_uleb128_step({}, b, 0)
          IN  dx' = IF b < Continuation
                    THEN [dx EXCEPT !.pc = "returned", !.expr = Append(@, b),
                                    !.var = var, !.result = var]
                    ELSE [dx EXCEPT !.pc = "__libdw_get_uleb128",
                                    !.expr = Append(@, b), !.var = var, !.i = 1]
    /\ UNCHANGED Loader

\* one turn of the loop for (; i < 10; ++i), or the return after it
__libdw_get_uleb128 ==
    /\ dx.pc = "__libdw_get_uleb128"
    /\ IF dx.i < MaxBytes
       THEN \E b \in Bytes :
               LET var == get_uleb128_step(dx.var, b, dx.i)
               IN  dx' = IF b < Continuation
                         THEN [dx EXCEPT !.pc = "returned", !.expr = Append(@, b),
                                         !.var = var, !.result = var]
                         ELSE [dx EXCEPT !.expr = Append(@, b), !.var = var,
                                         !.i = @ + 1]
       ELSE dx' = [dx EXCEPT !.pc = "returned", !.result = UINT64_MAX]
    /\ UNCHANGED Loader

NextExpr ==
    \/ dwarf_expr
    \/ get_uleb128
    \/ __libdw_get_uleb128

SpecExpr == InitExpr /\ [][NextExpr]_vars

(***************************************************************************)
(* What the history says about CU k.                                       *)
(***************************************************************************)
Stealer == conf.present /\ conf.steal

EventsOf(k) == LET OfCU(e) == e.cu = k IN SelectSeq(log, OfCU)

Steps(k) == [i \in 1..Len(EventsOf(k)) |-> EventsOf(k)[i].ev]

Happened(ev, k) == \E i \in 1..Len(log) : log[i].ev = ev /\ log[i].cu = k

Answered(r, k) == \E i \in 1..Len(log) : log[i].ev = "steal" /\ log[i].cu = k /\ log[i].r = r

\* the driver has left the loop body of CU k
Passed(k) == k < ncu \/ (k = ncu /\ pc \in {"nextcu", "getmodules", "done"})

InList(k) == \E j \in 1..Len(cus) : cus[j] = k

IsPrefix(s, t) == Len(s) <= Len(t) /\ \A i \in 1..Len(s) : s[i] = t[i]

\* the steps of a CU that is neither failed nor crashed
FullRun ==
    IF Stealer THEN <<"new", "build", "resolve", "cache", "steal", "done">>
    ELSE <<"new", "build", "resolve", "cache", "done">>

\* the members of c that are bitfields
Bitfields(c) ==
    {m \in 1..Len(c.heap) : c.heap[m].tag = "member" /\ c.heap[m].bitfield_size # 0}

\* the bit width of the storage type at index id of the types table, reached
\* through typedef, const and volatile wrappers; -1 when there is none
RECURSIVE StorageBits(_, _, _)
StorageBits(c, id, depth) ==
    LET t == cu__type(c, id)
    IN  IF t = 0 \/ depth = 0 THEN -1
        ELSE CASE c.heap[t].tag = "base_type" -> c.heap[t].bit_size
               [] c.heap[t].tag = "enumeration_type" -> c.heap[t].size
               [] c.heap[t].tag \in {"typedef", "const_type", "volatile_type"} ->
                      StorageBits(c, c.heap[t].type, depth - 1)
               [] OTHER -> -1

(***************************************************************************)
(* C1: after the three table passes of the resolver, in a CU of any        *)
(* language, every member with a nonzero bitfield_size has a resolved type *)
(* whose storage bit width equals that bitfield_size.                      *)
(***************************************************************************)
C1_BitfieldWidth ==
    pc = "cache" =>
        \A m \in Bitfields(cu) :
            StorageBits(cu, cu.heap[m].type, Len(cu.heap)) = cu.heap[m].bitfield_size

(***************************************************************************)
(* C2.  As claimed: after resolution the type of every tag is 0 or a valid *)
(* index into the types table whose entry is of a type kind.               *)
(***************************************************************************)
TypeIndex(c, id) ==
    /\ id \in 0..(Len(c.types_table) - 1)
    /\ cu__type(c, id) # 0
    /\ tag__is_tag_type(c.heap[cu__type(c, id)].tag)

TableOf(c, t) ==
    IF tag__is_tag_type(c.heap[t].tag) THEN c.types_table
    ELSE IF c.heap[t].tag = "subprogram" THEN c.functions_table
    ELSE c.tags_table

\* the tag an inlined_subroutine, imported_module or imported_declaration
\* refers to when its reference is found in the all-tags hash, else 0
ByTagsHash(c, t) ==
    IF c.heap[t].priv
       /\ c.heap[t].tag \in {"inlined_subroutine", "imported_module", "imported_declaration"}
    THEN dwarf_cu__find_tag_by_id(c, c.heap[t].dtype)
    ELSE 0

SameTables(c, d) ==
    /\ d.types_table = c.types_table
    /\ d.tags_table = c.tags_table
    /\ d.functions_table = c.functions_table
    /\ Len(d.heap) = Len(c.heap)
    /\ \A t \in 1..Len(c.heap) :
          d.heap[t].type = c.heap[t].type /\ d.heap[t].name = c.heap[t].name

SecondRun(r) == r.err = 0 /\ SameTables(cu, r.c)

C3_ResolverIdempotent == pc = "cache" => SecondRun(cu__recode_dwarf_types(cu))

(***************************************************************************)
(* C4: a CU is in the file's list exactly when the driver has left it, it  *)
(* was built and resolved, and no stealer is configured or the stealer     *)
(* answered KEEP; a CU answered STOLEN or STOP is never in the list, and   *)
(* after STOLEN the driver goes on to the next CU without aborting.        *)
(***************************************************************************)
C4_AddedIffKept ==
    /\ \A k \in 1..ncu :
          InList(k) <=>
              /\ Passed(k)
              /\ Happened("build", k)
              /\ Happened("resolve", k)
              /\ (~Stealer \/ Answered("LSK__KEEPIT", k))
    /\ \A k \in 1..ncu :
          Answered("LSK__STOLEN", k) \/ Answered("LSK__STOP_LOADING", k) => ~InList(k)
    /\ \A j \in 1..Len(cus) : cus[j] \in 1..ncu
    /\ (log # <<>> /\ log[Len(log)].ev = "done" /\ Answered("LSK__STOLEN", ncu)) =>
           \/ pc = "nextcu"
           \/ pc \in {"getmodules", "done"} /\ cb = "DWARF_CB_OK"

\* a stolen CU followed by a kept one
C4_Witness ==
    /\ pc = "done"
    /\ \E k \in 1..ncu : Answered("LSK__STOLEN", k) /\ ~InList(k) /\ InList(k + 1)
    /\ \E k \in 1..ncu : Happened("build_failed", k)

(***************************************************************************)
(* C5: once the stealer has answered STOP for a CU, no later CU of the     *)
(* file is constructed, resolved, offered to the stealer or added to the   *)
(* list, in this module or in a following one.                             *)
(***************************************************************************)
C5_StopEndsTheFile ==
    \A i \in 1..Len(log) :
        (log[i].ev = "steal" /\ log[i].r = "LSK__STOP_LOADING") =>
            /\ ncu = log[i].cu
            /\ mod = log[i].mod
            /\ i + 1 = Len(log)
            /\ log[i + 1].ev = "done" /\ log[i + 1].cu = log[i].cu
            /\ \A j \in 1..Len(cus) : cus[j] < log[i].cu
            /\ pc \in {"getmodules", "done"}
            /\ cb = "DWARF_CB_ABORT"

\* STOP for the first CU of the first module, with CUs and modules to spare
C5_Witness ==
    /\ pc = "done"
    /\ Answered("LSK__STOP_LOADING", ncu)
    /\ ncu < limits.cus
    /\ mod < limits.modules

(***************************************************************************)
(* C6: the CUs are handled one after another, those of a module at         *)
(* increasing cursor offsets and each once; the steps of a CU are build,   *)
(* resolve, size cache, steal in this order; with a stealer configured, a  *)
(* CU that completed build and resolution is offered to it exactly once,   *)
(* and a CU whose build or resolution failed is never offered.             *)
(***************************************************************************)
C6_StepsInOrder ==
    /\ \A i, j \in 1..Len(log) : i < j => log[i].cu <= log[j].cu
    /\ \A i, j \in 1..Len(log) :
          (i < j /\ log[i].ev = "new" /\ log[j].ev = "new" /\ log[i].mod = log[j].mod)
              => log[i].off < log[j].off
    /\ \A k \in 1..ncu :
          \/ IsPrefix(Steps(k), FullRun)
          \/ Steps(k) = <<"new_failed">>
          \/ Steps(k) = <<"new", "build_failed">>
          \/ Steps(k) = <<"new", "build", "resolve_failed">>
    /\ \A k \in 1..ncu :
          (Passed(k) /\ Happened("resolve", k)) => Steps(k) = FullRun

\* a CU offered to the stealer, then one in the same module whose
\* resolution fails
C6_Witness ==
    /\ pc = "done"
    /\ Stealer
    /\ \E k \in 1..ncu :
          /\ Answered("LSK__KEEPIT", k)
          /\ Steps(k + 1) = <<"new", "build", "resolve_failed">>
          /\ \E i, j \in 1..Len(log) :
                /\ log[i].ev = "new" /\ log[i].cu = k
                /\ log[j].ev = "new" /\ log[j].cu = k + 1
                /\ log[i].mod = log[j].mod

(***************************************************************************)
(* C7: dwarf__load_file returns a failure code when no DWARF section was   *)
(* found, when a CU build failed for lack of memory or when the stealer    *)
(* answered STOP, and success in every other case.                         *)
(***************************************************************************)
C7_FailureCode ==
    pc = "done" =>
        ((ret # 0) <=>
            \/ found = 0
            \/ \E i \in 1..Len(log) :
                  log[i].ev \in {"new_failed", "build_failed"} /\ log[i].r = "oom"
            \/ \E i \in 1..Len(log) : log[i].ev = "steal" /\ log[i].r = "LSK__STOP_LOADING")

(***************************************************************************)
(* C8: when the driver is done with a CU, the raw-load arena is released   *)
(* if the stealer answered STOLEN or STOP, and on the KEEP or no-stealer   *)
(* path it is released exactly when extra_dbg_info is off.                 *)
(***************************************************************************)
C8_RawArenaReleased ==
    \A i \in 1..Len(log) :
        log[i].ev = "done" =>
            IF Answered("LSK__STOLEN", log[i].cu) \/ Answered("LSK__STOP_LOADING", log[i].cu)
            THEN log[i].r = "freed"
            ELSE (log[i].r = "freed") <=> ~(conf.present /\ conf.extra_dbg_info)

(***************************************************************************)
(* C9: a DIE of an unsupported kind, at the top level of the CU or below   *)
(* it, is skipped: the build of a CU fails only for lack of memory (or for *)
(* a root that is no compile unit), never for the kind of a DIE.           *)
(***************************************************************************)
C9_UnsupportedSkipped ==
    \A i \in 1..Len(log) : log[i].ev = "build_failed" => log[i].r \in {"oom", "root"}

\* member m is a bitfield whose type is found and is of a kind the recoder
\* has no case for
Unhandled(c, m) ==
    LET type == dwarf_cu__find_type_by_id(c, c.heap[m].dtype)
    IN  /\ type # 0
        /\ c.heap[type].tag \notin
               {"typedef", "const_type", "volatile_type", "base_type", "enumeration_type"}

(***************************************************************************)
(* C10: a bitfield member whose type is of a kind the recoder does not     *)
(* handle stays unresolved and resolution goes on: the resolution of the   *)
(* CU does not fail, and the CU is offered to the stealer.                 *)
(***************************************************************************)
C10_UnhandledKindSkipped ==
    (Happened("build", ncu) /\ ~cu.oom /\ \E m \in Bitfields(cu) : Unhandled(cu, m)) =>
        /\ ~Happened("resolve_failed", ncu)
        /\ \A m \in Bitfields(cu) : Unhandled(cu, m) => cu.heap[m].type = 0
        /\ (Passed(ncu) /\ Stealer) => Happened("steal", ncu)

(***************************************************************************)
(* The DIEs behind the tags: every DIE of the menu, nested ones included.  *)
(***************************************************************************)
RECURSIVE DiesUnder(_)
DiesUnder(d) == {d} \cup UNION {DiesUnder(d.children[i]) : i \in 1..Len(d.children)}

AllDies ==
    UNION {DiesUnder(d) : d \in RichMenu \cup AddrMenu \cup FixupMenu \cup OriginMenu}

\* the DIE a tag with raw metadata was made from
DieAt(offset) == CHOOSE d \in AllDies : d.off = offset

\* the tags of c that carry raw metadata
RawTags(c) == {t \in 1..Len(c.heap) : c.heap[t].priv}

\* the build of the current CU is over and no allocation has failed in it
Built == Happened("build", ncu) /\ ~cu.oom

(***************************************************************************)
(* C11: a tag whose raw type reference, or whose wrapper's pointee         *)
(* reference met while its bitfield is recoded, names an offset the types  *)
(* hash does not hold is skipped: the loader does not crash on the failed  *)
(* lookup, and once the resolver is through the tag's type is 0.           *)
(***************************************************************************)
UsesTypesHash(k) == k \notin {"inlined_subroutine", "imported_module", "imported_declaration"}

\* the raw type reference of t is not in the types hash
TypeMissing(c, t) ==
    /\ UsesTypesHash(c.heap[t].tag)
    /\ c.heap[t].dtype # 0
    /\ dwarf_cu__find_type_by_id(c, c.heap[t].dtype) = 0

\* t is a bitfield whose type is a wrapper with a pointee that is not there
PointeeMissing(c, t) ==
    LET w == dwarf_cu__find_type_by_id(c, c.heap[t].dtype)
    IN  /\ t \in Bitfields(c)
        /\ w # 0
        /\ c.heap[w].tag \in {"typedef", "const_type", "volatile_type"}
        /\ TypeMissing(c, w)

LookupFails(c) == {t \in RawTags(c) : TypeMissing(c, t) \/ PointeeMissing(c, t)}

C11_LookupFailureSkipped ==
    (Built /\ LookupFails(cu) # {}) =>
        /\ pc # "crashed"
        /\ Happened("resolve", ncu) => \A t \in LookupFails(cu) : cu.heap[t].type = 0

(***************************************************************************)
(* C12: after resolution every parameter of every function and function    *)
(* type has a name.  That is the statement as made; what holds is that a   *)
(* parameter with no type reference whose abstract origin is found in the  *)
(* all-tags hash has the name of that origin, and that every other         *)
(* parameter has the name its DIE carried, which may be none.              *)
(***************************************************************************)
\* the parameters of the functions and function types of c
Parameters(c) ==
    UNION {{c.heap[f].parms[i] : i \in 1..Len(c.heap[f].parms)} : f \in 1..Len(c.heap)}

Resolved == Happened("resolve", ncu)

NameOrigin(c, p) ==
    IF c.heap[p].dtype = 0 /\ c.heap[p].abstract_origin # 0
    THEN dwarf_cu__find_tag_by_id(c, c.heap[p].abstract_origin)
    ELSE 0

Recoded(c, kind) == {t \in 1..Len(c.heap) : ~c.heap[t].priv /\ c.heap[t].tag = kind}

\* names and values along a list of enumerators
NamesAndValues(c, list) ==
    [i \in 1..Len(list) |-> <<c.heap[list[i]].name, c.heap[list[i]].value>>]

IsEnumerator(d) == d.tag = "enumerator"

\* names and values of the enumerator children of a DIE
DieNamesAndValues(d) ==
    LET l == SelectSeq(d.children, IsEnumerator)
    IN  [i \in 1..Len(l) |-> <<l[i].name, l[i].const_value>>]

C13_RecodedEnumerationShares ==
    \A e \in Recoded(cu, "enumeration_type") :
        LET from == cu.heap[e].alias
        IN  /\ cu.heap[e].shared_tags
            /\ from # 0
            /\ cu.heap[from].priv /\ cu.heap[from].tag = "enumeration_type"
            /\ cu.heap[e].tags = <<>>
            /\ cu.heap[e].nr_members = cu.heap[from].nr_members
            /\ cu.heap[e].nr_members = Len(type__for_each_enumerator(cu, e))
            /\ NamesAndValues(cu, type__for_each_enumerator(cu, e))
                   = NamesAndValues(cu, type__for_each_enumerator(cu, from))
            /\ NamesAndValues(cu, type__for_each_enumerator(cu, e))
                   = DieNamesAndValues(DieAt(cu.heap[from].id))

\* enum E has been recoded to two bits, with its two enumerators
C13_Witness ==
    /\ Resolved
    /\ \E e \in Recoded(cu, "enumeration_type") :
          /\ cu.heap[e].size = 2
          /\ NamesAndValues(cu, type__for_each_enumerator(cu, e)) = <<(<<"A", 1>>), (<<"B", 5>>)>>

(***************************************************************************)
(* C14: an array built from a DIE with n subrange_type children, among     *)
(* children of any kind, has min(n, 64) dimensions, and its entry counts   *)
(* are those of the first min(n, 64) subrange children in DIE order.       *)
(***************************************************************************)
\* the arrays the builder has handed over
Arrays(c) ==
    {c.types_table[j] : j \in {i \in 2..Len(c.types_table) :
                                  c.heap[c.types_table[i]].tag = "array_type"}}

IsSubrange(d) == d.tag = "subrange_type"

Subranges(d) == SelectSeq(d.children, IsSubrange)

Smaller(a, b) == IF a <= b THEN a ELSE b

C14_ArrayDimensions ==
    \A a \in Arrays(cu) :
        LET subs == Subranges(DieAt(cu.heap[a].id))
            k    == Smaller(Len(subs), MaxDimensions)
        IN  /\ Len(cu.heap[a].nr_entries) = k
            /\ \A i \in 1..k : cu.heap[a].nr_entries[i] = attr_upper_bound(subs[i])

\* an array of more subranges than max_dimensions has been built, and one
\* with a child that is no subrange
C14_Witness ==
    /\ \E a \in Arrays(cu) :
          /\ Len(Subranges(DieAt(cu.heap[a].id))) > MaxDimensions
          /\ Len(cu.heap[a].nr_entries) = MaxDimensions
    /\ \E a \in Arrays(cu) :
          /\ Len(DieAt(cu.heap[a].id).children) > Len(Subranges(DieAt(cu.heap[a].id)))
          /\ cu.heap[a].nr_entries = <<3, 5>>

(***************************************************************************)
(* C15: recoding a base type of name N to width w returns the index of a   *)
(* base type (N, w) of the types table when there is one, and adds         *)
(* nothing; otherwise, memory permitting, it adds exactly one base type    *)
(* (N, w, top_level) and returns its index.  Hence two bitfields of equal  *)
(* width over the same base type resolve to the same index, and no base    *)
(* type made by recoding has the name and width of another base type of    *)
(* the types table.                                                        *)
(***************************************************************************)
\* the indices of the types table of c that hold a base type (name, w)
BaseTypesAt(c, name, w) ==
    {j \in 1..(Len(c.types_table) - 1) :
        /\ c.heap[c.types_table[j + 1]].tag = "base_type"
        /\ c.heap[c.types_table[j + 1]].name = name
        /\ c.heap[c.types_table[j + 1]].bit_size = w}

\* the widths bitfields are recoded to
Widths == {cu.heap[m].bitfield_size : m \in Bitfields(cu)}

\* r is what recoding the base type t of c to width w returned
RecodedOnce(c, t, w, r) ==
    IF BaseTypesAt(c, c.heap[t].name, w) # {}
    THEN r.c = c /\ r.ret \in BaseTypesAt(c, c.heap[t].name, w)
    ELSE IF c.fuel = 0
    THEN r.ret = -ENOMEM /\ r.c.types_table = c.types_table
    ELSE /\ r.ret = Len(c.types_table)
         /\ Len(r.c.heap) = Len(c.heap) + 1
         /\ r.c.types_table = Append(c.types_table, Len(r.c.heap))
         /\ r.c.tags_table = c.tags_table
         /\ r.c.functions_table = c.functions_table
         /\ r.c.heap[Len(r.c.heap)].tag = "base_type"
         /\ r.c.heap[Len(r.c.heap)].name = c.heap[t].name
         /\ r.c.heap[Len(r.c.heap)].bit_size = w
         /\ r.c.heap[Len(r.c.heap)].top_level

\* two bitfields of c of one width over one base type
SameBase(c, m, n) ==
    /\ c.heap[m].dtype = c.heap[n].dtype
    /\ c.heap[m].bitfield_size = c.heap[n].bitfield_size
    /\ dwarf_cu__find_type_by_id(c, c.heap[m].dtype) # 0
    /\ c.heap[dwarf_cu__find_type_by_id(c, c.heap[m].dtype)].tag = "base_type"

C15_RecodedBaseTypeShared ==
    /\ (Built /\ pc \in {"recode", "cache", "steal"}) =>
           \A t \in RawTags(cu) : \A w \in Widths :
               cu.heap[t].tag = "base_type" =>
                   RecodedOnce(cu, t, w, tag__recode_dwarf_bitfield(cu, t, w))
    /\ Resolved =>
           \A m \in Bitfields(cu) : \A n \in Bitfields(cu) :
               SameBase(cu, m, n) => cu.heap[m].type = cu.heap[n].type
    /\ \A t \in Recoded(cu, "base_type") :
           \A j \in BaseTypesAt(cu, cu.heap[t].name, cu.heap[t].bit_size) :
               cu.types_table[j + 1] = t

\* a and b of struct S, both int:3, share the one 3-bit int made for them
C15_Witness ==
    /\ Resolved
    /\ \E m \in Bitfields(cu) : \E n \in Bitfields(cu) :
          /\ m # n
          /\ SameBase(cu, m, n)
          /\ cu.heap[m].type = cu.heap[n].type
          /\ cu.heap[m].type \in BaseTypesAt(cu, "int", 3)
          /\ cu.types_table[cu.heap[m].type + 1] \in Recoded(cu, "base_type")

(***************************************************************************)
(* C16: after the size cache, a bitfield whose storage type, reached       *)
(* through typedef, const and volatile wrappers, is a base type of w bits  *)
(* has byte_size 0 when the name of that base type has no known size, and  *)
(* byte_size S / 8 and bit_size w when it has the size S bits and w is not *)
(* S; a member that is no bitfield has bit_size = byte_size * 8.           *)
(***************************************************************************)
Cached == Happened("cache", ncu)

Members(c) == {m \in 1..Len(c.heap) : c.heap[m].tag \in {"member", "inheritance"}}

\* the tag at index id of the types table behind its wrappers, 0 for none
RECURSIVE StorageTag(_, _, _)
StorageTag(c, id, depth) ==
    LET t == cu__type(c, id)
    IN  IF t = 0 \/ depth = 0 THEN 0
        ELSE IF c.heap[t].tag \in {"typedef", "const_type", "volatile_type"}
        THEN StorageTag(c, c.heap[t].type, depth - 1)
        ELSE t

\* member m of c, a bitfield over the base type st, is cached as it should be
CachedBitfield(c, m, st) ==
    LET w == c.heap[st].bit_size
        S == base_type__name_to_size(c.heap[st].name)
    IN  /\ S = 0 => c.heap[m].byte_size = 0
        /\ (S # 0 /\ w # S) => c.heap[m].byte_size * 8 = S /\ c.heap[m].mbit_size = w

C16_CachedSizes ==
    Cached =>
        \A m \in Members(cu) :
            LET st == StorageTag(cu, cu.heap[m].type, Len(cu.heap))
            IN  IF cu.heap[m].bitfield_size = 0
                THEN cu.heap[m].mbit_size = cu.heap[m].byte_size * 8
                ELSE (st # 0 /\ cu.heap[st].tag = "base_type") => CachedBitfield(cu, m, st)

\* int a:3 is cached as 4 bytes and 3 bits, and int c as 4 bytes and 32 bits
C16_Witness ==
    /\ Cached
    /\ \E m \in Bitfields(cu) :
          /\ cu.heap[m].bitfield_size = 3
          /\ cu.heap[m].byte_size = 4
          /\ cu.heap[m].mbit_size = 3
    /\ \E m \in Members(cu) :
          /\ cu.heap[m].bitfield_size = 0
          /\ cu.heap[m].byte_size = 4
          /\ cu.heap[m].mbit_size = 32

(***************************************************************************)
(* C17: after resolution a subprogram whose DIE has a name has that name;  *)
(* one whose DIE has none has the name of the subprogram its               *)
(* abstract_origin leads to or, when that is not found, of the one its     *)
(* specification leads to; when neither is found its name is empty, and    *)
(* the resolver has gone on all the same.                                  *)
(***************************************************************************)
Subprograms(c) == {f \in RawTags(c) : c.heap[f].tag = "subprogram"}

\* the tag the name of subprogram f comes from, 0 for none
NameSource(c, f) ==
    LET d == DieAt(c.heap[f].id)
    IN  IF dwarf_cu__find_tag_by_id(c, d.ao) # 0
        THEN dwarf_cu__find_tag_by_id(c, d.ao)
        ELSE dwarf_cu__find_tag_by_id(c, d.spec)

IsMemberDie(d) == d.tag \in {"member", "inheritance"}

\* the offsets of the member DIEs of a struct or union DIE, in order
DieMemberIds(d) ==
    LET l == SelectSeq(d.children, IsMemberDie) IN [i \in 1..Len(l) |-> l[i].off]

\* the raw ids of the members of the struct or union s of c, in list order
MemberIds(c, s) ==
    LET IsMember(t) == c.heap[t].tag \in {"member", "inheritance"}
        l == SelectSeq(c.heap[s].tags, IsMember)
    IN  [i \in 1..Len(l) |-> c.heap[l[i]].id]

Aggregates(c) ==
    {s \in RawTags(c) : tag__is_struct(c.heap[s].tag) \/ c.heap[s].tag = "union_type"}

C18_LayoutKept ==
    Built =>
        /\ \A m \in Members(cu) :
               cu.heap[m].byte_offset = DieAt(cu.heap[m].id).data_member_location
        /\ \A s \in Aggregates(cu) :
               MemberIds(cu, s) = DieMemberIds(DieAt(cu.heap[s].id))

\* struct S is through the resolver and the cache: a has been recoded and
\* sized, and c still stands third, at byte 4
C18_Witness ==
    /\ Cached
    /\ \E s \in Aggregates(cu) :
          /\ MemberIds(cu, s) = <<41, 42, 43>>
          /\ \E m \in Bitfields(cu) : cu.heap[m].id = 41 /\ cu.heap[m].type # 0
                                         /\ cu.heap[m].byte_size = 4
          /\ \E m \in Members(cu) : cu.heap[m].id = 43 /\ cu.heap[m].byte_offset = 4

(***************************************************************************)
(* C19: at the end of the build every tag found in the types hash or in    *)
(* the all-tags hash has a raw small_id that is the index at which that    *)
(* tag is stored in the table of its kind, members and inheritances of     *)
(* CUs of any language included.                                           *)
(***************************************************************************)
Hashed(c) ==
    {c.hash_types[i] : i \in 1..Len(c.hash_types)} \cup
    {c.hash_tags[i] : i \in 1..Len(c.hash_tags)}

\* t is stored in the table of its kind at the index its small_id gives
StoredAtSmallId(c, t) ==
    /\ c.heap[t].small_id \in 0..(Len(TableOf(c, t)) - 1)
    /\ TableOf(c, t)[c.heap[t].small_id + 1] = t

C19_SmallIdIsIndex ==
    Built => \A t \in Hashed(cu) : StoredAtSmallId(cu, t)

(***************************************************************************)
(* C20: when recoding a typedef, const or volatile wrapper to a bitfield   *)
(* width allocates a new wrapper, the new wrapper is of the kind of the    *)
(* original, carries its name and points at the recoded target.            *)
(***************************************************************************)
Wrappers(c) ==
    {t \in RawTags(c) : /\ c.heap[t].tag \in {"typedef", "const_type", "volatile_type"}
                         /\ dwarf_cu__find_type_by_id(c, c.heap[t].dtype) # 0}

\* r is what recoding the wrapper t of c to width w returned: a new wrapper
MadeWrapper(c, t, r) ==
    /\ r.ret >= 0
    /\ r.ret < Len(r.c.types_table)
    /\ r.c.types_table[r.ret + 1] > Len(c.heap)
    /\ r.c.heap[r.c.types_table[r.ret + 1]].tag \in {"typedef", "const_type", "volatile_type"}

LikeOriginal(c, t, w, r) ==
    LET new == r.c.heap[r.c.types_table[r.ret + 1]]
    IN  /\ new.tag = c.heap[t].tag
        /\ new.name = c.heap[t].name
        /\ StorageBits(r.c, new.type, Len(r.c.heap)) = w

C20_WrapperKindKept ==
    (Built /\ pc = "recode") =>
        \A t \in Wrappers(cu) : \A w \in Widths :
            MadeWrapper(cu, t, tag__recode_dwarf_bitfield(cu, t, w)) =>
                LikeOriginal(cu, t, w, tag__recode_dwarf_bitfield(cu, t, w))

(***************************************************************************)
(* C21: a variable that is no declaration, loaded with get_addr_info, has  *)
(* the location category of the first opcode of its DW_AT_location:        *)
(* DW_OP_addr is global at the address operand, DW_OP_reg0..reg31 and      *)
(* DW_OP_breg0..breg31 are register, DW_OP_fbreg is local, a missing       *)
(* attribute is optimized and anything else is unknown.                    *)
(***************************************************************************)
Variables(c) == {t \in 1..Len(c.heap) : c.heap[t].tag = "variable"}

\* the category the rule gives to a DIE
Category(d) ==
    IF ~d.has_location THEN "LOCATION_OPTIMIZED"
    ELSE IF d.location = <<>> THEN "LOCATION_UNKNOWN"
    ELSE LET first == d.location[1].atom
         IN  IF first = DW_OP_addr THEN "LOCATION_GLOBAL"
             ELSE IF first \in DW_OP_reg0..DW_OP_reg31 THEN "LOCATION_REGISTER"
             ELSE IF first \in DW_OP_breg0..DW_OP_breg31 THEN "LOCATION_REGISTER"
             ELSE IF first = DW_OP_fbreg THEN "LOCATION_LOCAL"
             ELSE "LOCATION_UNKNOWN"

Located(c, t) == c.has_addr_info /\ ~DieAt(c.heap[t].id).declaration

C21_LocationByFirstOpcode ==
    \A t \in Variables(cu) :
        Located(cu, t) =>
            LET d == DieAt(cu.heap[t].id)
            IN  /\ cu.heap[t].location = Category(d)
                /\ Category(d) = "LOCATION_GLOBAL" =>
                       cu.heap[t].addr = d.location[1].number

(***************************************************************************)
(* C24: without get_addr_info (or without a configuration) every function, *)
(* lexical block, variable, label and inline expansion has address 0, the  *)
(* size of a function or lexical block and the high_pc and size of an      *)
(* inline expansion are 0, and the location of a variable is unknown.      *)
(***************************************************************************)
HasAddress(k) ==
    k \in {"subprogram", "lexical_block", "variable", "label", "inlined_subroutine"}

C24_NoAddressInfo ==
    ~cu.has_addr_info =>
        \A t \in RawTags(cu) :
            LET self == cu.heap[t]
            IN  HasAddress(self.tag) =>
                    /\ self.addr = 0
                    /\ self.tag \in {"subprogram", "lexical_block"} => self.size = 0
                    /\ self.tag = "inlined_subroutine" =>
                           self.high_pc = 0 /\ self.size = 0
                    /\ self.tag = "variable" => self.location = "LOCATION_UNKNOWN"

(***************************************************************************)
(* C22: ULEB128 decoding of k bytes (1 <= k <= 10) of which only the last  *)
(* has no continuation bit returns the sum of (byte_i & 0x7f) << (7*i)     *)
(* modulo 2^64 and consumes exactly k bytes; ten bytes with the            *)
(* continuation bit give UINT64_MAX; dwarf_expr returns the decoded        *)
(* operand for DW_OP_plus_uconst and DW_OP_constu and UINT64_MAX for any   *)
(* other first opcode.                                                     *)
(* The sum is computed on numbers of four 16-bit limbs, least significant  *)
(* first, by addition with carry.                                          *)
(***************************************************************************)
Limb == Pow2(16)

Zero64 == <<0, 0, 0, 0>>

\* a + b modulo 2^64: the carry out of the last limb is dropped
Add64(a, b) ==
    LET s1 == a[1] + b[1]
        s2 == a[2] + b[2] + (s1 \div Limb)
        s3 == a[3] + b[3] + (s2 \div Limb)
        s4 == a[4] + b[4] + (s3 \div Limb)
    IN  <<s1 % Limb, s2 % Limb, s3 % Limb, s4 % Limb>>

\* a * 2^7 modulo 2^64
Times128(a) ==
    LET s1 == a[1] * Continuation
        s2 == a[2] * Continuation + (s1 \div Limb)
        s3 == a[3] * Continuation + (s2 \div Limb)
        s4 == a[4] * Continuation + (s3 \div Limb)
    IN  <<s1 % Limb, s2 % Limb, s3 % Limb, s4 % Limb>>

RECURSIVE Term(_, _)
\* (byte & 0x7f) << (7 * i) modulo 2^64, i counted from 0
Term(byte, i) ==
    IF i = 0 THEN <<byte % Continuation, 0, 0, 0>> ELSE Times128(Term(byte, i - 1))

RECURSIVE Sum64(_, _)
\* the sum of the terms of the first n bytes
Sum64(bytes, n) ==
    IF n = 0 THEN Zero64 ELSE Add64(Sum64(bytes, n - 1), Term(bytes[n], n - 1))

\* the number a set of bit positions stands for
RECURSIVE Weigh(_, _, _)
Weigh(v, j, p) ==
    IF p < 0 THEN 0
    ELSE (IF 16 * j + p \in v THEN Pow2(p) ELSE 0) + Weigh(v, j, p - 1)

Number(v) == <<Weigh(v, 0, 15), Weigh(v, 1, 15), Weigh(v, 2, 15), Weigh(v, 3, 15)>>

\* the operand bytes dwarf_expr has consumed
Operand == Tail(dx.expr)

Terminated(bytes) ==
    /\ Len(bytes) \in 1..MaxBytes
    /\ \A n \in 1..Len(bytes) : (bytes[n] < Continuation) = (n = Len(bytes))

C22_Uleb128 ==
    dx.pc = "returned" =>
        IF dx.expr[1] \in {DW_OP_plus_uconst, DW_OP_constu}
        THEN /\ Terminated(Operand) =>
                   Number(dx.result) = Sum64(Operand, Len(Operand))
             /\ (Len(Operand) >= MaxBytes /\
                 \A n \in 1..MaxBytes : Operand[n] >= Continuation) =>
                   dx.result = UINT64_MAX /\ Len(Operand) = MaxBytes
             /\ Terminated(Operand) \/ Len(Operand) = MaxBytes
        ELSE dx.result = UINT64_MAX /\ Operand = <<>>

\* ten bytes were decoded into a number with bit 63 and bit 0 set
C22_Witness ==
    /\ dx.pc = "returned"
    /\ dx.expr[1] = DW_OP_plus_uconst
    /\ Terminated(Operand)
    /\ Len(Operand) = MaxBytes
    /\ Operand[MaxBytes] = 127
    /\ Number(dx.result) = <<65535, 65535, 65535, 65535>>

(***************************************************************************)
(* C23: a formal_parameter DIE under a subroutine_type is appended to the  *)
(* parameter list of the function type and is in none of the dense tables  *)
(* of the CU (types, tags, functions).                                     *)
(***************************************************************************)
FunctionTypes(c) == {t \in RawTags(c) : c.heap[t].tag = "subroutine_type"}

InTable(c, table, t) == \E i \in 1..Len(table) : table[i] = t

ParameterDies(d) ==
    SelectSeq(d.children, LAMBDA k : k.tag = "formal_parameter")

\* the parameter list of f is made of the formal_parameter children of its
\* DIE, in their order
ParametersListed(c, f) ==
    LET dies == ParameterDies(DieAt(c.heap[f].id))
        ids  == [i \in 1..Len(c.heap[f].parms) |-> c.heap[c.heap[f].parms[i]].id]
    IN  IsPrefix(ids, [i \in 1..Len(dies) |-> dies[i].off])

C23_ParameterInNoTable ==
    \A f \in FunctionTypes(cu) :
        /\ ParametersListed(cu, f)
        /\ \A i \in 1..Len(cu.heap[f].parms) :
              LET p == cu.heap[f].parms[i]
              IN  /\ ~InTable(cu, cu.types_table, p)
                  /\ ~InTable(cu, cu.tags_table, p)
                  /\ ~InTable(cu, cu.functions_table, p)

\* C23 as the code has it: the parameter is appended to the list and is
\* entered into the tags table, at the index its small_id records, and is
\* hashed by id; it is in neither of the other tables nor in the tag list of
\* the CU
C23_ParameterInTagsTable ==
    \A f \in FunctionTypes(cu) :
        /\ ParametersListed(cu, f)
        /\ \A i \in 1..Len(cu.heap[f].parms) :
              LET p == cu.heap[f].parms[i]
              IN  /\ ~InTable(cu, cu.types_table, p)
                  /\ ~InTable(cu, cu.functions_table, p)
                  /\ ~InTable(cu, cu.tags, p)
                  /\ cu.heap[p].small_id \in 0..(Len(cu.tags_table) - 1)
                  /\ cu.tags_table[cu.heap[p].small_id + 1] = p
                  /\ Cardinality({j \in 1..Len(cu.tags_table) : cu.tags_table[j] = p}) = 1
                  /\ InTable(cu, cu.hash_tags, p)

\* a function type with its parameter, built after another tag of the tags
\* table
C23_Witness ==
    /\ pc = "recode"
    /\ \E f \in FunctionTypes(cu) :
          /\ InTable(cu, cu.types_table, f)
          /\ Len(cu.heap[f].parms) = 1
          /\ cu.heap[cu.heap[f].parms[1]].id = 191
          /\ cu.heap[cu.heap[f].parms[1]].small_id = 1
          /\ Len(cu.tags_table) = 2

(***************************************************************************)
(* C25: the size cache clears bitfield_size and bitfield_offset of a       *)
(* member only when fixup_silly_bitfields is set in the configuration and  *)
(* the bit width of the storage type of the member equals the width of     *)
(* its integral container; in every other case (option off, no             *)
(* configuration, widths differ, container size unknown, no bitfield) it   *)
(* leaves both as they are.                                                *)
(***************************************************************************)
\* the width of the integral container of the storage tag st
Container(c, st) ==
    IF c.heap[st].tag = "enumeration_type" THEN 32
    ELSE base_type__name_to_size(c.heap[st].name)

Silly(c, m) ==
    LET st == StorageTag(c, c.heap[m].type, Len(c.heap))
    IN  /\ c.heap[m].bitfield_size # 0
        /\ st # 0
        /\ Container(c, st) # 0
        /\ StorageBits(c, c.heap[m].type, Len(c.heap)) = Container(c, st)

C25_FixupSillyBitfields ==
    [][(pc = "cache" /\ pc' = "steal") =>
          \A m \in Members(cu) :
              IF conf.present /\ conf.fixup_silly_bitfields /\ Silly(cu, m)
              THEN /\ cu'.heap[m].bitfield_size = 0
                   /\ cu'.heap[m].bitfield_offset = 0
              ELSE /\ cu'.heap[m].bitfield_size = cu.heap[m].bitfield_size
                   /\ cu'.heap[m].bitfield_offset = cu.heap[m].bitfield_offset]_vars

MemberAt(c, offset) == CHOOSE m \in Members(c) : c.heap[m].id = offset

\* struct F cached under fixup_silly_bitfields: w and k are no bitfields any
\* more, n still is one
C25_Witness ==
    /\ Cached
    /\ conf.present /\ conf.fixup_silly_bitfields
    /\ \A o \in 131..134 : \E m \in Members(cu) : cu.heap[m].id = o
    /\ cu.heap[MemberAt(cu, 131)].bitfield_size = 0
    /\ cu.heap[MemberAt(cu, 133)].bitfield_size = 0
    /\ cu.heap[MemberAt(cu, 132)].bitfield_size = 3
    /\ cu.heap[MemberAt(cu, 132)].bitfield_offset = 29

(***************************************************************************)
(* C26: when the recoding of the pointee of a typedef, const or volatile   *)
(* wrapper fails with a negative error (-EINVAL, -ENOMEM), the recoding of *)
(* the wrapper returns a negative error too, allocates no wrapper and adds *)
(* nothing to the types table.                                             *)
(***************************************************************************)
\* the widths wrappers are recoded to
AnyWidths == Widths \cup {3}

\* recoding the pointee of the wrapper t of c to width w fails
PointeeFails(c, t, w) ==
    LET r == tag__recode_dwarf_bitfield(c, dwarf_cu__find_type_by_id(c, c.heap[t].dtype), w)
    IN  r.ret < 0 /\ r.ret # -SEGV

\* r is what recoding a tag of c returned: a failure that left no trace
FailedClean(c, r) ==
    /\ r.ret < 0
    /\ Len(r.c.heap) = Len(c.heap)
    /\ r.c.types_table = c.types_table

C26_WrapperFailurePropagates ==
    (Built /\ pc = "recode") =>
        \A t \in Wrappers(cu) : \A w \in AnyWidths :
            PointeeFails(cu, t, w) =>
                FailedClean(cu, tag__recode_dwarf_bitfield(cu, t, w))

(***************************************************************************)
(* C27: after the resolution of the whole CU a parameter with no type      *)
(* reference and an abstract origin has the name and the resolved type     *)
(* index its origin parameter has then, whatever the order of the two      *)
(* functions in the tables and whether or not the parameter is in the      *)
(* tags table.                                                             *)
(***************************************************************************)
\* the parameters of c that name an origin parameter of c and no type
ByOrigin(c) ==
    {p \in RawTags(c) :
        /\ c.heap[p].tag = "formal_parameter"
        /\ c.heap[p].dtype = 0
        /\ c.heap[p].abstract_origin # 0
        /\ dwarf_cu__find_tag_by_id(c, c.heap[p].abstract_origin) # 0
        /\ c.heap[dwarf_cu__find_tag_by_id(c, c.heap[p].abstract_origin)].tag =
               "formal_parameter"}

OriginOf(c, p) == c.heap[dwarf_cu__find_tag_by_id(c, c.heap[p].abstract_origin)]

C27_ParameterLikeOrigin ==
    Resolved =>
        \A p \in ByOrigin(cu) :
            /\ cu.heap[p].name = OriginOf(cu, p).name
            /\ cu.heap[p].type = OriginOf(cu, p).type

(***************************************************************************)
(* C28: bitfield recoding shares the wrappers it makes: two bitfield       *)
(* members of equal width whose type is the same typedef, const or         *)
(* volatile of a base type resolve to the same small_id, and the types     *)
(* table never holds two made wrappers equal in kind, name and target.     *)
(***************************************************************************)
\* the entries of the types table of c that recoding made as wrappers
MadeWrappers(c) ==
    {i \in 1..(Len(c.types_table) - 1) :
        /\ ~c.heap[c.types_table[i + 1]].priv
        /\ c.heap[c.types_table[i + 1]].tag \in {"typedef", "const_type", "volatile_type"}}

SameWrapper(c, i, j) ==
    LET a == c.heap[c.types_table[i + 1]]
        b == c.heap[c.types_table[j + 1]]
    IN  a.tag = b.tag /\ a.name = b.name /\ a.type = b.type

\* bitfields m and n of c have the same width and the same wrapper of a base
\* type as the type of their DIEs
SameWrapped(c, m, n) ==
    LET w == dwarf_cu__find_type_by_id(c, c.heap[m].dtype)
    IN  /\ c.heap[m].bitfield_size = c.heap[n].bitfield_size
        /\ c.heap[m].dtype = c.heap[n].dtype
        /\ w # 0
        /\ c.heap[w].tag \in {"typedef", "const_type", "volatile_type"}
        /\ dwarf_cu__find_type_by_id(c, c.heap[w].dtype) # 0
        /\ c.heap[dwarf_cu__find_type_by_id(c, c.heap[w].dtype)].tag = "base_type"

RecodedTo(c, m) == c.heap[m].type \in MadeWrappers(c)

InTypesPass == pc = "recode" /\ rt.pt = "types_table"

\* the types table is void, the tags the builder made, the tags recoding
\* appended: none of the last has raw metadata, all of the others have
AppendedLast(c) ==
    \A i \in 2..Len(c.types_table) : \A j \in 2..Len(c.types_table) :
        (i < j /\ ~c.heap[c.types_table[i]].priv) => ~c.heap[c.types_table[j]].priv

\* a turn of the loop on an entry
Visit == InTypesPass /\ rt.i < Len(cu.types_table)

\* the turn on an appended entry changes nothing but the index
Skipped ==
    /\ cu' = cu
    /\ rt' = [rt EXCEPT !.i = @ + 1]
    /\ pc' = pc

\* the entries with raw metadata that the pass has yet to visit, and all the
\* entries it has yet to visit: the pair that every turn of the loop lowers
RawAhead(c, i) ==
    Cardinality({j \in (i + 1)..Len(c.types_table) : c.heap[c.types_table[j]].priv})

Ahead(c, i) == Len(c.types_table) - i

Lowered ==
    \/ RawAhead(cu', rt'.i) < RawAhead(cu, rt.i)
    \/ /\ RawAhead(cu', rt'.i) = RawAhead(cu, rt.i)
       /\ Ahead(cu', rt'.i) < Ahead(cu, rt.i)

C29_TypesPassEnds ==
    /\ [](InTypesPass => (rt.i >= 1 /\ AppendedLast(cu)))
    /\ [][InTypesPass => (RecodeStep /\ (InTypesPass' => Lowered))]_vars
    /\ [][Visit => /\ cu.types_table[rt.i + 1] # 0
                   /\ ~cu.heap[cu.types_table[rt.i + 1]].priv => Skipped
                   /\ \A j \in (Len(cu.types_table) + 1)..Len(cu'.types_table) :
                          ~cu'.heap[cu'.types_table[j]].priv
                   /\ (InTypesPass' /\ Len(cu'.types_table) > Len(cu.types_table)) =>
                          rt'.i < Len(cu'.types_table)]_vars
    /\ [][(InTypesPass /\ ~InTypesPass' /\ pc' = "recode") =>
              rt.i = Len(cu.types_table)]_vars

\* the pass stands on an entry that it appended itself
C29_Witness ==
    /\ Visit
    /\ ~cu.heap[cu.types_table[rt.i + 1]].priv
    /\ cu.heap[cu.types_table[rt.i + 1]].tag = "typedef"
    /\ Len(cu.types_table) = 7
    /\ rt.i = 5

====
